---- MODULE Spec2Model ----
(***************************************************************************)
(* A model of the color subsystem of typst-library                         *)
(* (crates/typst-library/src/visualize/color): the hex codec, the          *)
(* conversion routing between the eight color spaces, color mixing, and    *)
(* the lazily initialised CMYK device transform.                           *)
(*                                                                         *)
(* Numbers.  An f32 is modelled as a fixed-point number: the record        *)
(* [nan |-> FALSE, n |-> k] stands for the value k / One, and              *)
(* [nan |-> TRUE, n |-> p] for a NaN with payload p.  Every multiplication *)
(* and division rounds to the grid, as f32 arithmetic rounds to the        *)
(* nearest representable value.  An f64 is modelled on a grid SubSteps     *)
(* times finer, so that the cast `as f32` is a rounding and not the        *)
(* identity.  Values stay within the bounded sets below, so the f32        *)
(* infinities are outside the model.                                       *)
(***************************************************************************)
EXTENDS Integers, Sequences, FiniteSets, TLC

VARIABLES op, arg, res, cell, made, pc, obs

vars == <<op, arg, res, cell, made, pc, obs>>

(***************************************************************************)
(* Fixed-point f32                                                         *)
(***************************************************************************)

\* The number of grid steps in 1.0.
One == 510

\* The number of f64 grid steps in one f32 grid step.
SubSteps == 2

F(k) == [nan |-> FALSE, n |-> k]

NaN == [nan |-> TRUE, n |-> 0]

IsNan(x) == x.nan

Zero == F(0)

Unit == F(One)

Abs(k) == IF k < 0 THEN 0 - k ELSE k

\* n / d rounded to the nearest integer, ties away from zero (d > 0).
RoundDiv(n, d) ==
    IF n >= 0 THEN (2 * n + d) \div (2 * d)
    ELSE 0 - ((2 * (0 - n) + d) \div (2 * d))

FAdd(a, b) == IF a.nan THEN a ELSE IF b.nan THEN b ELSE F(a.n + b.n)

FSub(a, b) == IF a.nan THEN a ELSE IF b.nan THEN b ELSE F(a.n - b.n)

FNeg(a) == IF a.nan THEN a ELSE F(0 - a.n)

FMul(a, b) ==
    IF a.nan THEN a ELSE IF b.nan THEN b ELSE F(RoundDiv(a.n * b.n, One))

\* A quotient with a zero divisor is not a finite number; it is kept apart
\* from the missing-channel NaN by its payload.
FDiv(a, b) ==
    IF a.nan THEN a
    ELSE IF b.nan THEN b
    ELSE IF b.n = 0 THEN [nan |-> TRUE, n |-> 1]
    ELSE IF b.n > 0 THEN F(RoundDiv(a.n * One, b.n))
    ELSE F(RoundDiv((0 - a.n) * One, 0 - b.n))

\* Comparisons of f32: every comparison with a NaN is false.
FLe(a, b) == ~a.nan /\ ~b.nan /\ a.n <= b.n

FLt(a, b) == ~a.nan /\ ~b.nan /\ a.n < b.n

FGt(a, b) == ~a.nan /\ ~b.nan /\ a.n > b.n

FEq(a, b) == ~a.nan /\ ~b.nan /\ a.n = b.n

\* f32::max: a NaN operand is ignored.
FMax(a, b) == IF a.nan THEN b ELSE IF b.nan THEN a ELSE IF a.n >= b.n THEN a ELSE b

FMin(a, b) == IF a.nan THEN b ELSE IF b.nan THEN a ELSE IF a.n <= b.n THEN a ELSE b

\* f32::clamp(0.0, 1.0): a NaN stays a NaN.
Clamp01(a) == IF a.nan THEN a ELSE IF a.n < 0 THEN Zero ELSE IF a.n > One THEN Unit ELSE a

\* f32::from(u8) / 255.0
FromByte(b) == F(RoundDiv(b * One, 255))

\* (x * 255.0).round() as u8: the cast saturates and sends NaN to 0.
ToByte(x) ==
    IF x.nan THEN 0
    ELSE LET r == RoundDiv(x.n * 255, One)
         IN  IF r < 0 THEN 0 ELSE IF r > 255 THEN 255 ELSE r

FAbs(a) == IF a.nan THEN a ELSE F(Abs(a.n))

\* n / d rounded to the nearest integer, ties to the even one (n >= 0, d > 0).
RoundEven(n, d) ==
    LET q == n \div d
        r == n % d
    IN  IF 2 * r < d THEN q
        ELSE IF 2 * r > d THEN q + 1
        ELSE IF q % 2 = 0 THEN q ELSE q + 1

\* A variant of AsF32 that keeps the value of every f64 weight.
AsF32_exact(w) == F(w)

\* `w as f32` of an f64 weight, given as a count of f64 grid steps: the
\* nearest f32, ties to even, so that a small enough weight becomes 0.0.
AsF32(w) == IF w >= 0 THEN F(RoundEven(w, SubSteps)) ELSE F(0 - RoundEven(0 - w, SubSteps))

\* f32::rem_euclid(360.0) of a value in degrees.
RemEuclid360(x) == IF x.nan THEN x ELSE F(x.n % (360 * One))

Deg(d) == F(d * One)

(***************************************************************************)
(* Colors.  A color is [variant, v]: v holds the variant's fields in       *)
(* declaration order -- Luma <<luma, alpha>>, Oklab <<l, a, b, alpha>>,    *)
(* Oklch <<l, chroma, hue, alpha>>, Rgb and LinearRgb <<red, green, blue,  *)
(* alpha>>, Cmyk <<c, m, y, k>>, Hsl <<hue, saturation, lightness,         *)
(* alpha>>, Hsv <<hue, saturation, value, alpha>>.  Hues are in degrees.   *)
(***************************************************************************)

Variants == {"Luma", "Oklab", "Oklch", "Rgb", "LinearRgb", "Cmyk", "Hsl", "Hsv"}

ColorSpace == {"Oklab", "Oklch", "Srgb", "D65Gray", "LinearRgb", "Hsl", "Hsv", "Cmyk"}

Color(variant, v) == [variant |-> variant, v |-> v]

Luma(l, a) == Color("Luma", <<l, a>>)

Rgb(r, g, b, a) == Color("Rgb", <<r, g, b, a>>)

Cmyk(c, m, y, k) == Color("Cmyk", <<c, m, y, k>>)

MkErr(msg) == [ok |-> FALSE, err |-> msg]

MkOk(c) == [ok |-> TRUE, val |-> c]

None == [ok |-> FALSE, err |-> "none"]

space(c) ==
    CASE c.variant = "Luma" -> "D65Gray"
      [] c.variant = "Oklab" -> "Oklab"
      [] c.variant = "Oklch" -> "Oklch"
      [] c.variant = "LinearRgb" -> "LinearRgb"
      [] c.variant = "Rgb" -> "Srgb"
      [] c.variant = "Cmyk" -> "Cmyk"
      [] c.variant = "Hsl" -> "Hsl"
      [] c.variant = "Hsv" -> "Hsv"

\* A variant of hue_index that knows no hue in Oklch.
hue_index_no_oklch(s) == IF s \in {"Hsl", "Hsv"} THEN 1 ELSE 0

\* The 1-based index of the hue channel, 0 for None.
hue_index(s) ==
    CASE s \in {"Hsl", "Hsv"} -> 1
      [] s = "Oklch" -> 3
      [] OTHER -> 0

from_u8(r, g, b, a) == Rgb(FromByte(r), FromByte(g), FromByte(b), FromByte(a))

to_vec4(c) ==
    CASE c.variant = "Luma" -> <<c.v[1], c.v[1], c.v[1], c.v[2]>>
      [] c.variant = "Oklch" -> <<c.v[1], c.v[2], RemEuclid360(c.v[3]), c.v[4]>>
      [] c.variant \in {"Hsl", "Hsv"} ->
            <<RemEuclid360(c.v[1]), c.v[2], c.v[3], c.v[4]>>
      [] OTHER -> c.v

to_vec4_u8(c) == [i \in 1..4 |-> ToByte(to_vec4(c)[i])]

normalize(c) ==
    Color(c.variant, [i \in DOMAIN c.v |-> IF IsNan(c.v[i]) THEN Zero ELSE c.v[i]])

(***************************************************************************)
(* The `palette` crate.  Its conversions are an external dependency of the *)
(* modelled code; they are modelled on the fixed-point grid by the         *)
(* textbook formulas, with three simplifications: the sRGB transfer        *)
(* function is a gamma of 2, Oklab is a linear opponent transform of       *)
(* linear RGB, and the polar form of Oklch uses the taxicab norm.  Every   *)
(* conversion carries alpha through unchanged, and a missing (NaN) color   *)
(* channel makes all color channels of the result NaN.  The operators      *)
(* below work on triples of grid integers.                                 *)
(***************************************************************************)

Max2(a, b) == IF a >= b THEN a ELSE b

Min2(a, b) == IF a <= b THEN a ELSE b

RECURSIVE ISqrtIn(_, _, _)
ISqrtIn(x, lo, hi) ==
    IF lo >= hi THEN lo
    ELSE LET mid == (lo + hi + 1) \div 2
         IN  IF mid * mid <= x THEN ISqrtIn(x, mid, hi) ELSE ISqrtIn(x, lo, mid - 1)

\* hi * hi stays below 2^31.
ISqrt(x) == ISqrtIn(x, 0, Min2(x, 46340))

\* The sRGB transfer function and its inverse.
IntoLinear(k) == IF k >= 0 THEN RoundDiv(k * k, One) ELSE 0 - RoundDiv(k * k, One)

FromLinear(k) == IF k >= 0 THEN ISqrt(k * One) ELSE 0 - ISqrt((0 - k) * One)

Map3(Op(_), t) == <<Op(t[1]), Op(t[2]), Op(t[3])>>

LumaFromRgb(t) ==
    LET lin == Map3(IntoLinear, t)
        y == FromLinear(RoundDiv(2126 * lin[1] + 7152 * lin[2] + 722 * lin[3], 10000))
    IN  <<y, y, y>>

\* The hue of an RGB triple, in grid degrees; not yet reduced mod 360.
HueOfRgb(t) ==
    LET mx == Max2(t[1], Max2(t[2], t[3]))
        mn == Min2(t[1], Min2(t[2], t[3]))
        d == mx - mn
    IN  IF d = 0 THEN 0
        ELSE IF mx = t[1] THEN RoundDiv(60 * One * (t[2] - t[3]), d)
        ELSE IF mx = t[2] THEN RoundDiv(60 * One * (t[3] - t[1]), d) + 120 * One
        ELSE RoundDiv(60 * One * (t[1] - t[2]), d) + 240 * One

\* <<hue, saturation, value>>
HsvFromRgb(t) ==
    LET mx == Max2(t[1], Max2(t[2], t[3]))
        mn == Min2(t[1], Min2(t[2], t[3]))
    IN  <<HueOfRgb(t), IF mx = 0 THEN 0 ELSE RoundDiv((mx - mn) * One, Abs(mx)), mx>>

RgbFromHsv(t) ==
    LET h == t[1] % (360 * One)
        i == h \div (60 * One)
        f == h - i * 60 * One
        s == t[2]
        v == t[3]
        p == RoundDiv(v * (One - s), One)
        q == RoundDiv(v * (One - RoundDiv(s * f, 60 * One)), One)
        u == RoundDiv(v * (One - RoundDiv(s * (60 * One - f), 60 * One)), One)
    IN  CASE i = 0 -> <<v, u, p>>
          [] i = 1 -> <<q, v, p>>
          [] i = 2 -> <<p, v, u>>
          [] i = 3 -> <<p, q, v>>
          [] i = 4 -> <<u, p, v>>
          [] OTHER -> <<v, p, q>>

\* <<hue, saturation, value>> from <<hue, saturation, lightness>>
HsvFromHsl(t) ==
    LET l == t[3]
        v == l + RoundDiv(t[2] * Min2(l, One - l), One)
    IN  <<t[1], IF v = 0 THEN 0 ELSE RoundDiv(2 * (v - l) * One, Abs(v)), v>>

HslFromHsv(t) ==
    LET v == t[3]
        l == RoundDiv(v * (2 * One - t[2]), 2 * One)
        m == Min2(l, One - l)
    IN  <<t[1], IF m = 0 THEN 0 ELSE RoundDiv((v - l) * One, Abs(m)), l>>

\* <<l, a, b>> from linear <<red, green, blue>>, and back.
OklabFromLinear(t) ==
    <<RoundDiv(t[1] + t[2] + t[3], 3), t[1] - t[2], RoundDiv(t[1] + t[2] - 2 * t[3], 2)>>

LinearFromOklab(t) ==
    <<RoundDiv(6 * t[1] + 2 * t[3] + 3 * t[2], 6),
      RoundDiv(6 * t[1] + 2 * t[3] - 3 * t[2], 6),
      RoundDiv(3 * t[1] - 2 * t[3], 3)>>

\* <<l, chroma, hue>> from <<l, a, b>>, and back.
OklchFromOklab(t) ==
    LET a == t[2]
        b == t[3]
        c == Abs(a) + Abs(b)
        q == 90 * One
    IN  <<t[1], c,
          IF c = 0 THEN 0
          ELSE IF a >= 0 /\ b >= 0 THEN RoundDiv(q * b, c)
          ELSE IF a < 0 /\ b >= 0 THEN q + RoundDiv(q * (0 - a), c)
          ELSE IF a < 0 THEN 2 * q + RoundDiv(q * (0 - b), c)
          ELSE RoundDiv(q * a, c) - q>>

OklabFromOklch(t) ==
    LET c == t[2]
        h == t[3] % (360 * One)
        q == 90 * One
        k == h \div q
        f == h - k * q
        far == RoundDiv(c * f, q)
        near == c - far
    IN  CASE k = 0 -> <<t[1], near, far>>
          [] k = 1 -> <<t[1], 0 - far, near>>
          [] k = 2 -> <<t[1], 0 - near, 0 - far>>
          [] OTHER -> <<t[1], far, 0 - near>>

\* The gamma-encoded RGB triple of the color channels of a palette variant.
RgbOf(variant, t) ==
    CASE variant = "Luma" -> <<t[1], t[1], t[1]>>
      [] variant = "Rgb" -> t
      [] variant = "LinearRgb" -> Map3(FromLinear, t)
      [] variant = "Oklab" -> Map3(FromLinear, LinearFromOklab(t))
      [] variant = "Oklch" -> Map3(FromLinear, LinearFromOklab(OklabFromOklch(t)))
      [] variant = "Hsl" -> RgbFromHsv(HsvFromHsl(t))
      [] variant = "Hsv" -> RgbFromHsv(t)

\* The color channels of a palette variant from a gamma-encoded RGB triple.
OfRgb(variant, t) ==
    CASE variant = "Luma" -> LumaFromRgb(t)
      [] variant = "Rgb" -> t
      [] variant = "LinearRgb" -> Map3(IntoLinear, t)
      [] variant = "Oklab" -> OklabFromLinear(Map3(IntoLinear, t))
      [] variant = "Oklch" -> OklchFromOklab(OklabFromLinear(Map3(IntoLinear, t)))
      [] variant = "Hsl" -> HslFromHsv(HsvFromRgb(t))
      [] variant = "Hsv" -> HsvFromRgb(t)

\* The three color channels and the alpha of a palette color.
Channels(c) == IF c.variant = "Luma" THEN <<c.v[1], c.v[1], c.v[1]>> ELSE SubSeq(c.v, 1, 3)

AlphaOf(c) == c.v[Len(c.v)]

Build(variant, t, alpha) ==
    IF variant = "Luma" THEN Color(variant, <<t[1], alpha>>)
    ELSE Color(variant, <<t[1], t[2], t[3], alpha>>)

\* palette's FromColor::from_color(c) into the palette type `variant`.
from_color(variant, c) ==
    LET t == Channels(c)
        k == Map3(LAMBDA x : x.n, t)
    IN  IF c.variant = variant THEN c
        ELSE IF IsNan(t[1]) \/ IsNan(t[2]) \/ IsNan(t[3])
        THEN Build(variant, <<NaN, NaN, NaN>>, AlphaOf(c))
        ELSE LET out == CASE variant = "Oklch" /\ c.variant = "Oklab" -> OklchFromOklab(k)
                          [] variant = "Oklab" /\ c.variant = "Oklch" -> OklabFromOklch(k)
                          [] variant = "Hsv" /\ c.variant = "Hsl" -> HsvFromHsl(k)
                          [] variant = "Hsl" /\ c.variant = "Hsv" -> HslFromHsv(k)
                          [] OTHER -> OfRgb(variant, RgbOf(c.variant, k))
             IN  Build(variant, Map3(F, out), AlphaOf(c))

\* Rgb::from_linear and Rgb::into_linear
from_linear(c) == from_color("Rgb", c)

into_linear(c) == from_color("LinearRgb", c)

(***************************************************************************)
(* cmyk.rs                                                                 *)
(***************************************************************************)

\* x * (num / den) for an f32 literal num / den.
Scale(x, num, den) == IF IsNan(x) THEN x ELSE F(RoundDiv(x.n * num, den))

Cmyk_from_luma(luma) ==
    LET l == FSub(Unit, luma.v[1])
    IN  Cmyk(Scale(l, 75, 100), Scale(l, 68, 100), Scale(l, 67, 100), Scale(l, 90, 100))

\* A variant of Cmyk::from_rgba without the test for k == 1.
Cmyk_from_rgba_unchecked(rgba) ==
    LET r == rgba.v[1]
        g == rgba.v[2]
        b == rgba.v[3]
        k == FSub(Unit, FMax(FMax(r, g), b))
    IN  Cmyk(FDiv(FSub(FSub(Unit, r), k), FSub(Unit, k)),
             FDiv(FSub(FSub(Unit, g), k), FSub(Unit, k)),
             FDiv(FSub(FSub(Unit, b), k), FSub(Unit, k)),
             k)

Cmyk_from_rgba(rgba) ==
    LET r == rgba.v[1]
        g == rgba.v[2]
        b == rgba.v[3]
        k == FSub(Unit, FMax(FMax(r, g), b))
    IN  IF FEq(k, Unit) THEN Cmyk(Zero, Zero, Zero, Unit)
        ELSE Cmyk(FDiv(FSub(FSub(Unit, r), k), FSub(Unit, k)),
                  FDiv(FSub(FSub(Unit, g), k), FSub(Unit, k)),
                  FDiv(FSub(FSub(Unit, b), k), FSub(Unit, k)),
                  k)

\* TO_SRGB.convert: the qcms transform from four CMYK bytes to three RGB
\* bytes.  The profile data is not part of the modelled code; the transform
\* is modelled as the ink formula on bytes.
Transform(src) ==
    [i \in 1..3 |-> RoundDiv((255 - src[i]) * (255 - src[4]), 255)]

\* A variant of Cmyk::to_rgba that does not round the channels to bytes.
Cmyk_to_rgba_exact(self) ==
    LET paper == FSub(Unit, self.v[4])
    IN  Rgb(FMul(FSub(Unit, self.v[1]), paper),
            FMul(FSub(Unit, self.v[2]), paper),
            FMul(FSub(Unit, self.v[3]), paper),
            Unit)

Cmyk_to_rgba(self) ==
    LET dest == Transform([i \in 1..4 |-> ToByte(self.v[i])])
    IN  Rgb(FromByte(dest[1]), FromByte(dest[2]), FromByte(dest[3]), Unit)

(***************************************************************************)
(* convert.rs: the conversion routing                                      *)
(***************************************************************************)

to_luma(self) ==
    CASE self.variant = "Luma" -> self
      [] self.variant = "Cmyk" -> from_color("Luma", Cmyk_to_rgba(self))
      [] OTHER -> from_color("Luma", self)

to_oklab(self) ==
    CASE self.variant = "Oklab" -> self
      [] self.variant = "Cmyk" -> from_color("Oklab", Cmyk_to_rgba(self))
      [] OTHER -> from_color("Oklab", self)

to_oklch(self) ==
    CASE self.variant = "Oklch" -> self
      [] self.variant = "Cmyk" -> from_color("Oklch", Cmyk_to_rgba(self))
      [] OTHER -> from_color("Oklch", self)

to_rgb(self) ==
    CASE self.variant = "Rgb" -> self
      [] self.variant = "LinearRgb" -> from_linear(self)
      [] self.variant = "Cmyk" -> from_color("Rgb", Cmyk_to_rgba(self))
      [] OTHER -> from_color("Rgb", self)

to_linear_rgb(self) ==
    CASE self.variant = "LinearRgb" -> self
      [] self.variant = "Cmyk" -> from_color("LinearRgb", Cmyk_to_rgba(self))
      [] self.variant \in {"Hsl", "Hsv"} -> into_linear(from_color("Rgb", self))
      [] OTHER -> from_color("LinearRgb", self)

\* A variant of to_cmyk that sends a Cmyk color through Rgb as well and
\* takes a LinearRgb color for a gamma-encoded one.
to_cmyk_rerouted(self) ==
    CASE self.variant = "Luma" -> Cmyk_from_luma(self)
      [] self.variant = "Rgb" -> Cmyk_from_rgba(self)
      [] self.variant = "LinearRgb" -> Cmyk_from_rgba(self)
      [] self.variant = "Cmyk" -> Cmyk_from_rgba(Cmyk_to_rgba(self))
      [] OTHER -> Cmyk_from_rgba(from_color("Rgb", self))

to_cmyk(self) ==
    CASE self.variant = "Luma" -> Cmyk_from_luma(self)
      [] self.variant = "Rgb" -> Cmyk_from_rgba(self)
      [] self.variant = "LinearRgb" -> Cmyk_from_rgba(from_linear(self))
      [] self.variant = "Cmyk" -> self
      [] OTHER -> Cmyk_from_rgba(from_color("Rgb", self))

to_hsl(self) ==
    CASE self.variant = "Hsl" -> self
      [] self.variant = "LinearRgb" -> from_color("Hsl", from_linear(self))
      [] self.variant = "Cmyk" -> from_color("Hsl", Cmyk_to_rgba(self))
      [] OTHER -> from_color("Hsl", self)

to_hsv(self) ==
    CASE self.variant = "Hsv" -> self
      [] self.variant = "LinearRgb" -> from_color("Hsv", from_linear(self))
      [] self.variant = "Cmyk" -> from_color("Hsv", Cmyk_to_rgba(self))
      [] OTHER -> from_color("Hsv", self)

\* A variant of to_space with the arms of Hsl and Hsv exchanged.
to_space_swapped(self, s) ==
    CASE s = "Oklab" -> to_oklab(self)
      [] s = "Oklch" -> to_oklch(self)
      [] s = "Srgb" -> to_rgb(self)
      [] s = "LinearRgb" -> to_linear_rgb(self)
      [] s = "Hsl" -> to_hsv(self)
      [] s = "Hsv" -> to_hsl(self)
      [] s = "Cmyk" -> to_cmyk(self)
      [] s = "D65Gray" -> to_luma(self)

to_space(self, s) ==
    CASE s = "Oklab" -> to_oklab(self)
      [] s = "Oklch" -> to_oklch(self)
      [] s = "Srgb" -> to_rgb(self)
      [] s = "LinearRgb" -> to_linear_rgb(self)
      [] s = "Hsl" -> to_hsl(self)
      [] s = "Hsv" -> to_hsv(self)
      [] s = "Cmyk" -> to_cmyk(self)
      [] s = "D65Gray" -> to_luma(self)

(***************************************************************************)
(* mod.rs: impl PartialEq for Color                                        *)
(***************************************************************************)

\* A variant of eq that compares the channels of every space exactly.
eq_exact(self, other) ==
    /\ space(self) = space(other)
    /\ \A i \in 1..4 :
           LET a == to_vec4(self)[i]
               b == to_vec4(other)[i]
           IN  (IsNan(a) /\ IsNan(b)) \/ FEq(a, b)

eq(self, other) ==
    LET a == to_vec4(self)
        b == to_vec4(other)
    IN  IF space(self) # space(other) THEN FALSE
        ELSE IF space(self) \in {"Srgb", "D65Gray"}
        THEN \A i \in 1..4 : (IsNan(a[i]) /\ IsNan(b[i])) \/ ToByte(a[i]) = ToByte(b[i])
        ELSE \A i \in 1..4 : (IsNan(a[i]) /\ IsNan(b[i])) \/ FEq(a[i], b[i])

(***************************************************************************)
(* mix.rs.  A WeightedColor is [color, weight], the weight an f64.         *)
(***************************************************************************)

\* The one element of a set of one element; it names an intermediate value.
The(S) == CHOOSE x \in S : TRUE

ErrHueMix == "cannot mix more than two colors in a hue-based space"

ErrWeights == "sum of weights must be positive"

\* The color of space s with the four channels m.
Assemble(s, m) ==
    CASE s = "D65Gray" -> Luma(m[1], m[4])
      [] s = "Srgb" -> Rgb(m[1], m[2], m[3], m[4])
      [] OTHER -> Color(s, <<m[1], m[2], m[3], m[4]>>)

\* The loop of the accumulation path: `total` and `acc[i]` after the first
\* k weighted colors.
RECURSIVE TotalOf(_, _)
TotalOf(colors, k) ==
    IF k = 0 THEN Zero
    ELSE FAdd(TotalOf(colors, k - 1), AsF32(colors[k].weight))

RECURSIVE AccOf(_, _, _, _)
AccOf(colors, s, i, k) ==
    IF k = 0 THEN Zero
    ELSE FAdd(AccOf(colors, s, i, k - 1),
              FMul(AsF32(colors[k].weight), to_vec4(to_space(colors[k].color, s))[i]))

\* A variant of MixHue that never adds 360 degrees to a hue.
MixHue_plain(c0, c1, w0, w1, index) ==
    [i \in 1..4 |-> FDiv(FAdd(FMul(w0, c0[i]), FMul(w1, c1[i])), FAdd(w0, w1))]

\* A variant of MixHue that adds 360 degrees to the first hue whenever the
\* hues are more than 180 degrees apart.
MixHue_first(c0, c1, w0, w1, index) ==
    LET avg(x0, x1) == FDiv(FAdd(FMul(w0, x0), FMul(w1, x1)), FAdd(w0, w1))
        wrap == FGt(FAbs(FSub(c0[index], c1[index])), Deg(180))
    IN  [i \in 1..4 |-> IF i = index /\ wrap THEN avg(FAdd(c0[index], Deg(360)), c1[index])
                                              ELSE avg(c0[i], c1[i])]

\* The two-color path of a hue space, after the weight check.
MixHue(c0, c1, w0, w1, index) ==
    LET avg(x0, x1) == FDiv(FAdd(FMul(w0, x0), FMul(w1, x1)), FAdd(w0, w1))
        wrap == FGt(FAbs(FSub(c0[index], c1[index])), Deg(180))
        h0 == IF FLt(c0[index], c1[index]) THEN FAdd(c0[index], Deg(360)) ELSE c0[index]
        h1 == IF FLt(c0[index], c1[index]) THEN c1[index] ELSE FAdd(c1[index], Deg(360))
    IN  [i \in 1..4 |-> IF i = index /\ wrap THEN avg(h0, h1) ELSE avg(c0[i], c1[i])]

mix_iter(colors, s) ==
    LET len == Len(colors)
        index == hue_index(s)
    IN  IF index # 0 /\ len > 2 THEN MkErr(ErrHueMix)
        ELSE IF index # 0 /\ len = 2
        THEN LET w0 == AsF32(colors[1].weight)
                 w1 == AsF32(colors[2].weight)
             IN  IF FLe(FAdd(w0, w1), Zero) THEN MkErr(ErrWeights)
                 ELSE The({MkOk(Assemble(s, MixHue(c0, c1, w0, w1, index))) :
                             c0 \in {to_vec4(to_space(colors[1].color, s))},
                             c1 \in {to_vec4(to_space(colors[2].color, s))}})
        ELSE LET total == TotalOf(colors, len)
             IN  IF FLe(total, Zero) THEN MkErr(ErrWeights)
                 ELSE MkOk(Assemble(s, [i \in 1..4 |-> FDiv(AccOf(colors, s, i, len), total)]))

(***************************************************************************)
(* The hex codec.  A string is a sequence of characters, each written as a *)
(* one-character string; "U+00E9" stands for a character outside ASCII.    *)
(***************************************************************************)

LowerHex == <<"0", "1", "2", "3", "4", "5", "6", "7", "8", "9", "a", "b", "c", "d", "e", "f">>

UpperHex == <<"0", "1", "2", "3", "4", "5", "6", "7", "8", "9", "A", "B", "C", "D", "E", "F">>

Range(f) == {f[i] : i \in DOMAIN f}

\* char::is_ascii_hexdigit
is_ascii_hexdigit(ch) == ch \in Range(LowerHex) \cup Range(UpperHex)

\* The value of one hexadecimal digit, of either case.
DigitValue(ch) ==
    (CHOOSE i \in 1..16 : LowerHex[i] = ch \/ UpperHex[i] = ch) - 1

\* u8::from_str_radix(item, 16) on an item of one or two hex digits.
from_str_radix(item) ==
    IF Len(item) = 1 THEN DigitValue(item[1])
    ELSE 16 * DigitValue(item[1]) + DigitValue(item[2])

\* str::strip_prefix('#').unwrap_or(hex_str)
strip_prefix(hex_str) ==
    IF Len(hex_str) > 0 /\ hex_str[1] = "#" THEN Tail(hex_str) ELSE hex_str

ErrNonHex == "color string contains non-hexadecimal letters"

ErrLength == "color string has wrong length"

\* A variant of HexElem whose shorthand shifts the digit without adding it.
HexElem_shift_only(hex_str, elem, long, short) ==
    LET item_len == IF long THEN 2 ELSE 1
        pos == elem * item_len
        value == from_str_radix(SubSeq(hex_str, pos + 1, pos + item_len))
    IN  IF short THEN (value * 16) % 256 ELSE value

\* The byte of element elem (0-based) of a string that passed the checks.
HexElem(hex_str, elem, long, short) ==
    LET item_len == IF long THEN 2 ELSE 1
        pos == elem * item_len
        item == SubSeq(hex_str, pos + 1, pos + item_len)
        value == from_str_radix(item)
    IN  IF short THEN (value + value * 16) % 256 ELSE value

\* A variant of from_str that checks the length before the digits.
from_str_length_first(str) ==
    LET hex_str == strip_prefix(str)
        len == Len(hex_str)
        long == len = 6 \/ len = 8
        short == len = 3 \/ len = 4
        alpha == len = 4 \/ len = 8
    IN  IF ~long /\ ~short THEN MkErr(ErrLength)
        ELSE IF \E i \in 1..len : ~is_ascii_hexdigit(hex_str[i]) THEN MkErr(ErrNonHex)
        ELSE MkOk(from_u8(HexElem(hex_str, 0, long, short),
                          HexElem(hex_str, 1, long, short),
                          HexElem(hex_str, 2, long, short),
                          IF alpha THEN HexElem(hex_str, 3, long, short) ELSE 255))

from_str(str) ==
    LET hex_str == strip_prefix(str)
        len == Len(hex_str)
        long == len = 6 \/ len = 8
        short == len = 3 \/ len = 4
        alpha == len = 4 \/ len = 8
    IN  IF \E i \in 1..len : ~is_ascii_hexdigit(hex_str[i]) THEN MkErr(ErrNonHex)
        ELSE IF ~long /\ ~short THEN MkErr(ErrLength)
        ELSE MkOk(from_u8(HexElem(hex_str, 0, long, short),
                          HexElem(hex_str, 1, long, short),
                          HexElem(hex_str, 2, long, short),
                          IF alpha THEN HexElem(hex_str, 3, long, short) ELSE 255))

\* A variant of Fmt02x that formats with "{:02X}".
Fmt02x_upper(b) == <<UpperHex[(b \div 16) + 1], UpperHex[(b % 16) + 1]>>

\* "{:02x}"
Fmt02x(b) == <<LowerHex[(b \div 16) + 1], LowerHex[(b % 16) + 1]>>

\* A variant of to_hex that exports the channels without converting to Rgb.
to_hex_unconverted(self) ==
    LET bytes == to_vec4_u8(normalize(self))
    IN  IF bytes[4] # 255
        THEN <<"#">> \o Fmt02x(bytes[1]) \o Fmt02x(bytes[2]) \o Fmt02x(bytes[3])
                 \o Fmt02x(bytes[4])
        ELSE <<"#">> \o Fmt02x(bytes[1]) \o Fmt02x(bytes[2]) \o Fmt02x(bytes[3])

to_hex(self) ==
    LET bytes == to_vec4_u8(normalize(to_rgb(self)))
        r == bytes[1]
        g == bytes[2]
        b == bytes[3]
        a == bytes[4]
    IN  IF a # 255 THEN <<"#">> \o Fmt02x(r) \o Fmt02x(g) \o Fmt02x(b) \o Fmt02x(a)
        ELSE <<"#">> \o Fmt02x(r) \o Fmt02x(g) \o Fmt02x(b)

(***************************************************************************)
(* Inputs of the bounded model                                             *)
(***************************************************************************)

\* The longest string body given to from_str.
MaxLen == 8

\* A digit, a lower-case and an upper-case hex letter, and a letter that is
\* no hex digit.
Alphabet == {"1", "f", "F", "g"}

\* The length up to which every string over the alphabet is given.
FreeLen == 4

TailAlphabet == {"1", "f"}

\* Every string over the alphabet of FreeLen characters or fewer, and the
\* longer ones whose characters after the first FreeLen are hex digits.
Bodies ==
    UNION {[1..k -> Alphabet] : k \in 0..FreeLen}
      \cup {h \o t : h \in [1..FreeLen -> Alphabet],
                     t \in UNION {[1..k -> TailAlphabet] : k \in 1..(MaxLen - FreeLen)}}

Prefixes == {<<>>, <<"#">>}

\* Strings with a second '#', with a character outside ASCII, and the
\* strings of the unit tests that the alphabet does not spell.
OddInputs ==
    {<<"#", "#">> \o b : b \in UNION {[1..k -> Alphabet] : k \in 0..3}}
      \cup {<<"U+00E9">>, <<"#", "1", "U+00E9", "f">>, <<"1", "f", "#">>,
            <<"a", "b", "c">>, <<"a", "a", "b", "b", "c", "c">>,
            <<"f", "C", "d", "2", "a", "9", "A", "D">>, <<"2", "3", "3">>,
            <<"1", "1", "1", "b">>, <<"h", "m", "m", "m">>,
            <<"1", "4", "B", "2", "A", "H">>}

HexInputs == {p \o b : p \in Prefixes, b \in Bodies} \cup OddInputs

\* Channel values: 0, 1, a half, a missing channel, and values outside
\* [0, 1] such as mixing and negation produce.
Vals == {Zero, Unit, F(One \div 2), NaN}

WideVals == Vals \cup {F(0 - (One \div 10)), F(One + (One \div 10))}

HueVals == {Deg(0), Deg(10), Deg(200), Deg(350)}

\* The colors given to to_hex.
HexColors ==
    {from_u8(246, 18, 67, 255)}
      \cup {Rgb(r, g, Unit, a) : r \in WideVals, g \in {Zero, F(One \div 2)}, a \in WideVals}
      \cup {Luma(l, a) : l \in Vals, a \in Vals}
      \cup {Cmyk(c, Zero, y, k) : c \in Vals, y \in {Zero, Unit}, k \in Vals}
      \cup {Color("Hsl", <<h, Unit, F(One \div 2), a>>) : h \in HueVals, a \in Vals}
      \cup {Color("LinearRgb", <<r, Zero, Unit, a>>) : r \in Vals, a \in Vals}

(***************************************************************************)
(* cmyk.rs: the three LazyLock statics.  A LazyLock is a Once (Incomplete, *)
(* Running, Complete) and the value its initialiser builds (none, partial  *)
(* while the initialiser runs, full once it has returned).  made counts    *)
(* the runs of each initialiser.                                           *)
(***************************************************************************)

Statics == {"CMYK_TO_XYZ", "SRGB_PROFILE", "TO_SRGB"}

Fresh == [once |-> "Incomplete", value |-> "none"]

Built == [once |-> "Complete", value |-> "full"]

LazyIdle ==
    /\ cell = [c \in Statics |-> Fresh]
    /\ made = [c \in Statics |-> 0]
    /\ pc = <<>>
    /\ obs = <<>>

(***************************************************************************)
(* The hex codec as a state machine: a string is parsed, and the color it  *)
(* yields is formatted back.                                               *)
(***************************************************************************)

InitHex ==
    /\ op = "idle"
    /\ arg = <<>>
    /\ res = None
    /\ LazyIdle

Parse ==
    /\ op = "idle"
    /\ \E str \in HexInputs :
        /\ arg' = str
        /\ res' = from_str(str)
    /\ op' = "from_str"
    /\ UNCHANGED <<cell, made, pc, obs>>

Format ==
    /\ op = "from_str"
    /\ res.ok
    /\ op' = "to_hex"
    /\ res' = [ok |-> TRUE, val |-> res.val, hex |-> to_hex(res.val)]
    /\ UNCHANGED <<arg, cell, made, pc, obs>>

FormatColor ==
    /\ op = "idle"
    /\ \E c \in HexColors :
        /\ arg' = c
        /\ res' = [ok |-> TRUE, val |-> c, hex |-> to_hex(c)]
    /\ op' = "hex_of"
    /\ UNCHANGED <<cell, made, pc, obs>>

\* The hex form of a color is parsed back.
ParseHex ==
    /\ op = "hex_of"
    /\ op' = "parse_hex"
    /\ res' = from_str(res.hex)
    /\ UNCHANGED <<arg, cell, made, pc, obs>>

NextHex == Parse \/ Format \/ FormatColor \/ ParseHex

SpecHex == InitHex /\ [][NextHex]_vars

(***************************************************************************)
(* Properties of the hex codec                                             *)
(***************************************************************************)

\* The value of each hexadecimal digit.
HexValue ==
    [ch \in Range(LowerHex) \cup Range(UpperHex) |->
        CASE ch \in {"0"} -> 0 [] ch \in {"1"} -> 1 [] ch \in {"2"} -> 2
          [] ch \in {"3"} -> 3 [] ch \in {"4"} -> 4 [] ch \in {"5"} -> 5
          [] ch \in {"6"} -> 6 [] ch \in {"7"} -> 7 [] ch \in {"8"} -> 8
          [] ch \in {"9"} -> 9 [] ch \in {"a", "A"} -> 10 [] ch \in {"b", "B"} -> 11
          [] ch \in {"c", "C"} -> 12 [] ch \in {"d", "D"} -> 13
          [] ch \in {"e", "E"} -> 14 [] ch \in {"f", "F"} -> 15]

AllHex(str) == \A i \in 1..Len(str) : str[i] \in DOMAIN HexValue

AllLower(str) == \A i \in 1..Len(str) : str[i] \in Range(LowerHex)

HasHash(str) == Len(str) > 0 /\ str[1] = "#"

\* The string after at most one leading '#'.
Digits(str) == IF HasHash(str) THEN SubSeq(str, 2, Len(str)) ELSE str

\* The alpha byte of an 8-digit string is 0xFF.
AlphaIsFF(digits) == HexValue[digits[7]] = 15 /\ HexValue[digits[8]] = 15

\* C4 as stated: every valid 6-digit string is returned by to_hex, and a
\* valid 8-digit string is returned exactly when its alpha byte is not 0xFF.
C4_RoundTripAnyString ==
    op = "to_hex" =>
        /\ Len(Digits(arg)) = 6 => res.hex = arg
        /\ Len(Digits(arg)) = 8 => (res.hex = arg <=> ~AlphaIsFF(Digits(arg)))

\* C4 amended: a valid string that starts with '#' and has only lower-case
\* digits is returned by to_hex if it has 6 digits, and, if it has 8 digits,
\* exactly when its alpha byte is not 0xFF.
C4_RoundTripCanonical ==
    (op = "to_hex" /\ HasHash(arg) /\ AllLower(Digits(arg))) =>
        /\ Len(Digits(arg)) = 6 => res.hex = arg
        /\ Len(Digits(arg)) = 8 => (res.hex = arg <=> ~AlphaIsFF(Digits(arg)))

C4_Witness ==
    /\ op = "to_hex"
    /\ HasHash(arg)
    /\ AllLower(Digits(arg))
    /\ Len(Digits(arg)) = 8
    /\ ~AlphaIsFF(Digits(arg))
    /\ res.hex = arg

\* C5: from_str strips at most one '#'; a character that is no ASCII hex
\* digit gives the non-hexadecimal error whatever the length; otherwise a
\* length other than 3, 4, 6, 8 gives the length error; otherwise the result
\* is Ok with an Rgb color.
C5_Classification ==
    op = "from_str" =>
        IF ~AllHex(Digits(arg)) THEN res = MkErr(ErrNonHex)
        ELSE IF Len(Digits(arg)) \notin {3, 4, 6, 8} THEN res = MkErr(ErrLength)
        ELSE res.ok /\ res.val.variant = "Rgb"

C5_Witness ==
    /\ op = "from_str"
    /\ Len(Digits(arg)) = 5
    /\ ~AllHex(Digits(arg))
    /\ res = MkErr(ErrNonHex)

\* The byte that group i (1-based) of a digit string denotes.
GroupByte(digits, i) ==
    IF Len(digits) \in {6, 8}
    THEN 16 * HexValue[digits[2 * i - 1]] + HexValue[digits[2 * i]]
    ELSE 16 * HexValue[digits[i]] + HexValue[digits[i]]

HasAlpha(digits) == Len(digits) \in {4, 8}

\* C6: each two-digit group decodes to its byte value whatever the case of
\* its digits, each shorthand digit d to 16 * d + d (at most 255), and the
\* alpha byte is 0xFF when the string has no alpha digits.
C6_Decoding ==
    (op = "from_str" /\ res.ok) =>
        LET digits == Digits(arg)
        IN  /\ \A i \in 1..3 : GroupByte(digits, i) <= 255
            /\ res.val = from_u8(GroupByte(digits, 1), GroupByte(digits, 2),
                                 GroupByte(digits, 3),
                                 IF HasAlpha(digits) THEN GroupByte(digits, 4) ELSE 255)
            /\ arg = <<"a", "b", "c">> =>
                    res = from_str(<<"a", "a", "b", "b", "c", "c">>)

C6_Witness ==
    /\ op = "from_str"
    /\ arg = <<"a", "b", "c">>
    /\ res.ok
    /\ to_vec4_u8(res.val) = <<170, 187, 204, 255>>

\* The byte an f32 channel exports as, a missing channel counting as 0.
ChannelByte(x) ==
    IF IsNan(x) \/ x.n <= 0 THEN 0
    ELSE IF x.n >= One THEN 255
    ELSE RoundDiv(255 * x.n, One)

\* C7: to_hex of any color is '#' and the lower-case two-digit bytes of the
\* color's Rgb form, a missing channel as 00; the alpha byte is written
\* exactly when it is not 255; from_u8(0xf6, 0x12, 0x43, 255) gives #f61243.
C7_ToHex ==
    op = "hex_of" =>
        LET c == to_rgb(arg)
            hex == res.hex
            n == IF ChannelByte(c.v[4]) = 255 THEN 3 ELSE 4
        IN  /\ Len(hex) = 1 + 2 * n
            /\ hex[1] = "#"
            /\ AllLower(Tail(hex))
            /\ \A i \in 1..n :
                16 * HexValue[hex[2 * i]] + HexValue[hex[2 * i + 1]] = ChannelByte(c.v[i])
            /\ arg = from_u8(246, 18, 67, 255) => hex = <<"#", "f", "6", "1", "2", "4", "3">>

C7_Witness ==
    /\ op = "hex_of"
    /\ arg.variant = "Luma"
    /\ IsNan(arg.v[1])
    /\ arg.v[2] = F(One \div 2)
    /\ res.hex = <<"#", "0", "0", "0", "0", "0", "0", "8", "0">>

(***************************************************************************)
(* Threads that each convert a Cmyk color to Rgb (Cmyk::to_rgba), starting *)
(* before any of the statics is initialised.                               *)
(***************************************************************************)

\* The number of threads.
NThreads == 3

\* The number of conversions each thread makes.
MaxCalls == 2

Threads == 1..NThreads

\* arg[t] counts the conversions thread t has completed.
InitLazy ==
    /\ op = "idle"
    /\ arg = [t \in Threads |-> 0]
    /\ res = None
    /\ cell = [c \in Statics |-> Fresh]
    /\ made = [c \in Statics |-> 0]
    /\ pc = [t \in Threads |-> "call"]
    /\ obs = [t \in Threads |-> Fresh]

\* A variant of MayInitialise that only asks whether the Once has completed.
MayInitialise_unlocked(c) == cell[c].once # "Complete"

\* Once::call_once lets the caller run the initialiser iff it moves the
\* state from Incomplete to Running; the test and the move are one atomic
\* step.
MayInitialise(c) == cell[c].once = "Incomplete"

\* LazyLock::force(c), the step that enters it: a completed cell is passed
\* (to `skip`), an incomplete one is claimed and its initialiser begins (at
\* `begin`), and a running one blocks the caller.
Force(t, c, from, begin, skip) ==
    /\ pc[t] = from
    /\ \/ /\ cell[c].once = "Complete"
          /\ pc' = [pc EXCEPT ![t] = skip]
          /\ UNCHANGED <<cell, made>>
       \/ /\ MayInitialise(c)
          /\ cell' = [cell EXCEPT ![c] = [once |-> "Running", value |-> "partial"]]
          /\ made' = [made EXCEPT ![c] = @ + 1]
          /\ pc' = [pc EXCEPT ![t] = begin]
    /\ UNCHANGED <<op, arg, res, obs>>

\* The initialiser of c returns: the value is complete and the Once too.
Finish(t, c, from, to) ==
    /\ pc[t] = from
    /\ cell' = [cell EXCEPT ![c] = Built]
    /\ pc' = [pc EXCEPT ![t] = to]
    /\ UNCHANGED <<op, arg, res, made, obs>>

\* to_rgba dereferences TO_SRGB.
ForceTransform(t) == Force(t, "TO_SRGB", "call", "force_cmyk", "convert")

\* TO_SRGB's initialiser dereferences CMYK_TO_XYZ, then SRGB_PROFILE.
ForceCmykProfile(t) == Force(t, "CMYK_TO_XYZ", "force_cmyk", "build_cmyk", "force_srgb")

BuildCmykProfile(t) == Finish(t, "CMYK_TO_XYZ", "build_cmyk", "force_srgb")

ForceSrgbProfile(t) == Force(t, "SRGB_PROFILE", "force_srgb", "build_srgb", "new_to")

\* new_sRGB() and precache_output_transform() have run.
BuildSrgbProfile(t) == Finish(t, "SRGB_PROFILE", "build_srgb", "new_to")

\* Transform::new_to(..).unwrap() returns.
BuildTransform(t) == Finish(t, "TO_SRGB", "new_to", "convert")

\* TO_SRGB.convert(..): the thread reads the transform.
Convert(t) ==
    /\ pc[t] = "convert"
    /\ obs' = [obs EXCEPT ![t] = cell["TO_SRGB"]]
    /\ pc' = [pc EXCEPT ![t] = "done"]
    /\ arg' = [arg EXCEPT ![t] = @ + 1]
    /\ UNCHANGED <<op, res, cell, made>>

\* The thread converts another Cmyk color.
Again(t) ==
    /\ pc[t] = "done"
    /\ arg[t] < MaxCalls
    /\ pc' = [pc EXCEPT ![t] = "call"]
    /\ UNCHANGED <<op, arg, res, cell, made, obs>>

NextLazy ==
    \E t \in Threads :
        \/ ForceTransform(t)
        \/ ForceCmykProfile(t)
        \/ BuildCmykProfile(t)
        \/ ForceSrgbProfile(t)
        \/ BuildSrgbProfile(t)
        \/ BuildTransform(t)
        \/ Convert(t)
        \/ Again(t)

SpecLazy == InitLazy /\ [][NextLazy]_vars

\* C1: each of the two profiles and the transform is constructed at most
\* once, every conversion reads the fully constructed transform, and a
\* static is never modified once its construction has completed.
C1_OnceOnly ==
    /\ [](/\ \A c \in Statics : made[c] <= 1
          /\ \A t \in Threads : pc[t] = "done" => obs[t] = Built)
    /\ [][\A c \in Statics : cell[c].once = "Complete" => cell'[c] = cell[c]]_vars

C1_Witness ==
    /\ \A t \in Threads : pc[t] = "done" /\ obs[t] = Built /\ arg[t] = MaxCalls
    /\ \A c \in Statics : made[c] = 1

(***************************************************************************)
(* Conversions as a state machine: a color is converted from space to      *)
(* space; arg is the history of the conversions made, each entry the color *)
(* converted and the space asked for, and res is the current color.        *)
(***************************************************************************)

\* The number of conversions made in a row.
MaxSteps == 2

AlphaVals == {Unit, F(One \div 2), NaN}

Half == F(One \div 2)

Minus == F(0 - (One \div 10))

Fifth == F(One \div 5)

ConvColors ==
    {Luma(l, a) : l \in Vals, a \in AlphaVals}
      \cup {Color(var, <<r, g, b, a>>) :
              var \in {"Rgb", "LinearRgb"}, r \in Vals, g \in {Zero, Half},
              b \in {Zero, Unit}, a \in AlphaVals}
      \cup {Cmyk(c, Zero, y, k) : c \in Vals, y \in {Zero, Half}, k \in Vals}
      \cup {Color("Oklab", <<l, a, b, alpha>>) :
              l \in {Half, Unit, NaN}, a \in {Minus, Zero, Fifth}, b \in {Minus, Fifth},
              alpha \in AlphaVals}
      \cup {Color("Oklch", <<l, c, h, alpha>>) :
              l \in {Half, NaN}, c \in {Zero, Fifth}, h \in HueVals, alpha \in AlphaVals}
      \cup {Color(var, <<h, sat, l, alpha>>) :
              var \in {"Hsl", "Hsv"}, h \in HueVals, sat \in {Zero, Unit, NaN},
              l \in {Half, Unit}, alpha \in AlphaVals}

InitConv ==
    /\ op = "new"
    /\ arg = <<>>
    /\ res \in ConvColors
    /\ LazyIdle

ConvertTo(s) ==
    /\ Len(arg) < MaxSteps
    /\ op' = "to_space"
    /\ arg' = Append(arg, [self |-> res, space |-> s])
    /\ res' = to_space(res, s)
    /\ UNCHANGED <<cell, made, pc, obs>>

NextConv == \E s \in ColorSpace : ConvertTo(s)

SpecConv == InitConv /\ [][NextConv]_vars

Last == arg[Len(arg)]

\* C2: converting a color to the space it is in gives an equal color, and a
\* second conversion to the same space gives a color equal to the first.
C2_Idempotent ==
    op = "to_space" =>
        /\ Last.space = space(Last.self) => eq(res, Last.self)
        /\ (Len(arg) >= 2 /\ arg[Len(arg) - 1].space = Last.space) => eq(res, Last.self)

C2_Witness ==
    /\ op = "to_space"
    /\ Len(arg) = 2
    /\ arg[1].self.variant = "Cmyk"
    /\ arg[1].space = "Hsl"
    /\ arg[2].space = "Hsl"
    /\ arg[2].self.variant = "Hsl"
    /\ eq(res, arg[2].self)

\* C3 as stated: a color of any space but Cmyk converts to Cmyk as its Rgb
\* form does under the Rgb-to-Cmyk rule, and a Cmyk color converts to any
\* other space as its Rgb form does.
C3_AllThroughRgb ==
    op = "to_space" =>
        /\ (Last.space = "Cmyk" /\ Last.self.variant # "Cmyk") =>
                res = Cmyk_from_rgba(to_rgb(Last.self))
        /\ (Last.space # "Cmyk" /\ Last.self.variant = "Cmyk") =>
                res = to_space(Cmyk_to_rgba(Last.self), Last.space)

\* C3 amended: the same, except that a Luma color converts to Cmyk by
\* Cmyk::from_luma, not through Rgb.
C3_ThroughRgbButLuma ==
    op = "to_space" =>
        /\ (Last.space = "Cmyk" /\ Last.self.variant \notin {"Cmyk", "Luma"}) =>
                res = Cmyk_from_rgba(to_rgb(Last.self))
        /\ (Last.space = "Cmyk" /\ Last.self.variant = "Luma") =>
                res = Cmyk_from_luma(Last.self)
        /\ (Last.space # "Cmyk" /\ Last.self.variant = "Cmyk") =>
                res = to_space(Cmyk_to_rgba(Last.self), Last.space)

C3_Witness ==
    /\ op = "to_space"
    /\ Last.self.variant = "LinearRgb"
    /\ Last.space = "Cmyk"
    /\ res = Cmyk_from_rgba(to_rgb(Last.self))
    /\ res # Cmyk_from_rgba(Color("Rgb", Last.self.v))

(***************************************************************************)
(* Mixing as a state machine: weighted colors are collected in arg, then   *)
(* mixed in a target space.                                                *)
(***************************************************************************)

\* The most colors given to mix.
MaxColors == 3

\* Weights, in f64 grid steps: negative, zero, positive ones too small or
\* too fine for the f32 grid, and 1.0.
WeightVals == {0 - 6, 0, 1, 3, One * SubSteps}

MixColors ==
    {Color("Hsl", <<Deg(350), Unit, Half, Half>>),
     Color("Oklch", <<Half, Fifth, Deg(10), NaN>>)}

InitMix ==
    /\ op = "collect"
    /\ arg = <<>>
    /\ res = None
    /\ LazyIdle

Push ==
    /\ op = "collect"
    /\ Len(arg) < MaxColors
    /\ \E c \in MixColors, w \in WeightVals :
        arg' = Append(arg, [color |-> c, weight |-> w])
    /\ UNCHANGED <<op, res, cell, made, pc, obs>>

Mix ==
    /\ op = "collect"
    /\ \E s \in ColorSpace : res' = [space |-> s, out |-> mix_iter(arg, s)]
    /\ op' = "mix"
    /\ UNCHANGED <<arg, cell, made, pc, obs>>

NextMix == Push \/ Mix

SpecMix == InitMix /\ [][NextMix]_vars

HueSpaces == {"Oklch", "Hsl", "Hsv"}

\* The exact sum of the f64 weights, in f64 grid steps.
RECURSIVE WeightSum(_)
WeightSum(colors) ==
    IF colors = <<>> THEN 0
    ELSE colors[Len(colors)].weight + WeightSum(SubSeq(colors, 1, Len(colors) - 1))

\* C8: in a hue space more than two colors give the hue error whatever the
\* weights; in a space without hue no number of colors gives it, and the
\* mix succeeds whenever the total weight is positive.
C8_HueLimit ==
    op = "mix" =>
        /\ (res.space \in HueSpaces /\ Len(arg) > 2) => res.out = MkErr(ErrHueMix)
        /\ (res.space \in HueSpaces /\ Len(arg) <= 2) => res.out # MkErr(ErrHueMix)
        /\ res.space \notin HueSpaces =>
                /\ res.out # MkErr(ErrHueMix)
                /\ FGt(TotalOf(arg, Len(arg)), Zero) => res.out.ok

C8_Witness ==
    /\ op = "mix"
    /\ res.space = "Oklch"
    /\ Len(arg) = 3
    /\ WeightSum(arg) <= 0
    /\ res.out = MkErr(ErrHueMix)

\* C9 as stated: in the two-color hue path and in the accumulation path,
\* mix_iter fails with the weight error whenever there is no color or the
\* weights sum to a value <= 0.
C9_NonPositiveSumFails ==
    (op = "mix" /\ ~(res.space \in HueSpaces /\ Len(arg) > 2)) =>
        ((Len(arg) = 0 \/ WeightSum(arg) <= 0) => res.out = MkErr(ErrWeights))

\* C10 as stated: mixing a color with itself, with positive weights, gives
\* the color converted to the target space.
C10_MixWithSelf ==
    (/\ op = "mix"
     /\ Len(arg) = 2
     /\ arg[1].color = arg[2].color
     /\ arg[1].weight > 0
     /\ arg[2].weight > 0) =>
        /\ res.out.ok
        /\ eq(res.out.val, to_space(arg[1].color, res.space))

(***************************************************************************)
(* Mixing two colors: one call of mix_iter on a pair of weighted colors.   *)
(***************************************************************************)

\* Hues on both sides of 0 degrees and of 180 degrees, one of them between
\* two whole degrees, and a missing one.
PairHues == {Deg(0), Deg(10), Deg(200), Deg(350), F(360 * One - (One \div 4 + 1)), NaN}

PairColors ==
    {Color("Hsl", <<h, Unit, Half, Unit>>) : h \in PairHues}
      \cup {Color("Oklch", <<Half, Fifth, Deg(10), Half>>), Rgb(Half, Zero, Unit, NaN)}

\* Positive weights, in f64 grid steps: too small for the f32 grid, one
\* and two f32 steps, and 1.0.
PairWeights == {1, SubSteps, 2 * SubSteps, One * SubSteps}

InitPair ==
    /\ op = "idle"
    /\ arg = <<>>
    /\ res = None
    /\ LazyIdle

MixPair ==
    /\ op = "idle"
    /\ \E c0 \in PairColors, c1 \in PairColors, w0 \in PairWeights, w1 \in PairWeights,
          s \in ColorSpace :
        LET colors == <<[color |-> c0, weight |-> w0], [color |-> c1, weight |-> w1]>>
        IN  /\ arg' = colors
            /\ res' = [space |-> s, out |-> mix_iter(colors, s)]
    /\ op' = "mix"
    /\ UNCHANGED <<cell, made, pc, obs>>

NextPair == MixPair

SpecPair == InitPair /\ [][NextPair]_vars

\* The hue, in [0, 360), of the i-th color of the pair in the target space.
PairHue(i) == to_vec4(to_space(arg[i].color, res.space))[hue_index(res.space)]

\* The two hues after 360 degrees are added to the smaller one when they
\* are more than 180 degrees apart.
Unwrapped ==
    LET h0 == PairHue(1)
        h1 == PairHue(2)
    IN  IF Abs(h0.n - h1.n) <= 180 * One THEN <<h0, h1>>
        ELSE IF h0.n < h1.n THEN <<F(h0.n + 360 * One), h1>>
        ELSE <<h0, F(h1.n + 360 * One)>>

\* A successful mix of two colors with present hues in a hue space.
HuePairMixed ==
    /\ op = "mix"
    /\ res.space \in HueSpaces
    /\ ~IsNan(PairHue(1))
    /\ ~IsNan(PairHue(2))
    /\ res.out.ok

\* The hue channel of the mixed color, as stored.
MixedHue == res.out.val.v[hue_index(res.space)]

to_bits(x) == IF x.nan THEN <<"nan", x.n>> ELSE <<"num", x.n>>

discriminant(c) == c.variant

hash(c) ==
    LET v == to_vec4(c)
    IN  <<discriminant(c), to_bits(v[1]), to_bits(v[2]), to_bits(v[3]), to_bits(v[4])>>

(***************************************************************************)
(* Equality and hashing as a state machine: two colors are compared, then  *)
(* both are hashed.                                                        *)
(***************************************************************************)

\* A NaN with another bit pattern than NaN.
NaN2 == [nan |-> TRUE, n |-> 2]

\* 0, a value that rounds to the byte 0, 0.5 and 128/255 (both round to the
\* byte 128), 1, two NaNs, and a value below 0.
EqVals == {Zero, F(1), Half, F(Half.n + 1), Unit, NaN, NaN2, Minus}

EqAlphas == {Unit, NaN}

EqColors ==
    {Rgb(x, Zero, Unit, a) : x \in EqVals, a \in EqAlphas}
      \cup {Luma(x, a) : x \in EqVals, a \in EqAlphas}
      \cup {Color("Oklab", <<x, Zero, Fifth, a>>) : x \in EqVals, a \in EqAlphas}
      \cup {Color("Hsl", <<h, x, Half, Unit>>) :
              h \in {Deg(0), Deg(360), Deg(10), NaN}, x \in {Zero, F(1), NaN, NaN2}}
      \cup {Cmyk(x, Zero, Zero, Unit) : x \in EqVals}

InitEq ==
    /\ op = "idle"
    /\ arg = <<>>
    /\ res = None
    /\ LazyIdle

Compare ==
    /\ op = "idle"
    /\ \E a \in EqColors, b \in EqColors :
        /\ arg' = <<a, b>>
        /\ res' = [eq |-> eq(a, b)]
    /\ op' = "eq"
    /\ UNCHANGED <<cell, made, pc, obs>>

HashBoth ==
    /\ op = "eq"
    /\ op' = "hash"
    /\ res' = [eq |-> res.eq, fed |-> <<hash(arg[1]), hash(arg[2])>>]
    /\ UNCHANGED <<arg, cell, made, pc, obs>>

NextEq == Compare \/ HashBoth

SpecEq == InitEq /\ [][NextEq]_vars

\* The 8-bit value round(255 * x) of a present channel, kept within 0..255.
Quantized(x) == Max2(0, Min2(255, RoundDiv(x.n * 255, One)))

\* Whether the i-th to_vec4 channels of the two colors compared match:
\* both missing, or both present and equal, in Srgb and D65Gray after
\* rounding to 8 bits.
ChannelsMatch(i) ==
    LET a == to_vec4(arg[1])[i]
        b == to_vec4(arg[2])[i]
    IN  \/ IsNan(a) /\ IsNan(b)
        \/ /\ ~IsNan(a)
           /\ ~IsNan(b)
           /\ IF space(arg[1]) \in {"Srgb", "D65Gray"}
              THEN Quantized(a) = Quantized(b)
              ELSE a.n = b.n

\* C12 as stated: two colors are equal iff they are in the same space and
\* every pair of to_vec4 channels matches.
C12_EqualIffChannelsMatch ==
    op = "eq" =>
        (res.eq <=> (space(arg[1]) = space(arg[2]) /\ \A i \in 1..4 : ChannelsMatch(i)))

\* The NaN bit patterns of the two colors agree channel by channel.
SameNanBits ==
    \A i \in 1..4 :
        LET a == to_vec4(arg[1])[i]
            b == to_vec4(arg[2])[i]
        IN  (IsNan(a) /\ IsNan(b)) => a = b

\* C13 as stated: two equal colors whose missing channels carry the same
\* NaN bit pattern feed the same data to the hasher.
C13_EqualHashEqual ==
    (op = "hash" /\ res.eq /\ SameNanBits) => res.fed[1] = res.fed[2]

(***************************************************************************)
(* mod.rs: the color operations.  A Ratio and an Angle are f64 values; a   *)
(* ratio is given as a count of f64 grid steps and cast with AsF32, an     *)
(* angle as a whole number of degrees, which the cast keeps.               *)
(*                                                                         *)
(* palette's Lighten and Saturate move a channel u of range [0, 1] by      *)
(* factor times its distance to 1 (factor >= 0) or to 0 (factor < 0), and  *)
(* clamp; Darken and Desaturate are the same with the factor negated;      *)
(* ShiftHue adds to the stored hue.                                        *)
(***************************************************************************)

FGe(a, b) == ~a.nan /\ ~b.nan /\ a.n >= b.n

PaletteLighten(u, factor) ==
    LET difference == IF FGe(factor, Zero) THEN FSub(Unit, u) ELSE u
        delta == FMul(FMax(difference, Zero), factor)
    IN  Clamp01(FAdd(u, delta))

\* The channels of a variant that Lighten and Darken act on.
LightnessChannels(variant) ==
    CASE variant \in {"Luma", "Oklab", "Oklch"} -> {1}
      [] variant \in {"Rgb", "LinearRgb"} -> {1, 2, 3}
      [] variant \in {"Hsl", "Hsv"} -> {3}
      [] variant = "Cmyk" -> {1, 2, 3, 4}

\* Cmyk::lighten and Cmyk::darken on one ink channel.
Cmyk_lighten(u, factor) == Clamp01(FSub(u, FMul(u, factor)))

Cmyk_darken(u, factor) == Clamp01(FAdd(u, FMul(FSub(Unit, u), factor)))

\* A variant of lighten that treats every channel like an ink of Cmyk.
lighten_as_ink(self, factor) ==
    LET f == AsF32(factor)
    IN  Color(self.variant,
              [i \in DOMAIN self.v |->
                  IF i \notin LightnessChannels(self.variant) THEN self.v[i]
                  ELSE Cmyk_lighten(self.v[i], f)])

lighten(self, factor) ==
    LET f == AsF32(factor)
    IN  Color(self.variant,
              [i \in DOMAIN self.v |->
                  IF i \notin LightnessChannels(self.variant) THEN self.v[i]
                  ELSE IF self.variant = "Cmyk" THEN Cmyk_lighten(self.v[i], f)
                  ELSE PaletteLighten(self.v[i], f)])

darken(self, factor) ==
    LET f == AsF32(factor)
    IN  Color(self.variant,
              [i \in DOMAIN self.v |->
                  IF i \notin LightnessChannels(self.variant) THEN self.v[i]
                  ELSE IF self.variant = "Cmyk" THEN Cmyk_darken(self.v[i], f)
                  ELSE PaletteLighten(self.v[i], FNeg(f))])

MkErrHint(msg, hint) == [ok |-> FALSE, err |-> msg, hint |-> hint]

ErrSaturate == "cannot saturate grayscale color"

ErrDesaturate == "cannot desaturate grayscale color"

HintToRgb == "try converting your color to RGB first"

\* Saturate of palette's Hsl and Hsv: the saturation is the second field.
PaletteSaturate(c, f) ==
    Color(c.variant, [i \in 1..4 |-> IF i = 2 THEN PaletteLighten(c.v[i], f) ELSE c.v[i]])

\* A variant of saturate that sends a Luma color through Hsv like the rest.
saturate_gray(self, factor) ==
    IF self.variant \in {"Hsl", "Hsv"} THEN MkOk(PaletteSaturate(self, AsF32(factor)))
    ELSE MkOk(The({to_space(PaletteSaturate(hsv, AsF32(factor)), space(self)) :
                     hsv \in {to_hsv(self)}}))

saturate(self, factor) ==
    CASE self.variant = "Luma" -> MkErrHint(ErrSaturate, HintToRgb)
      [] self.variant \in {"Hsl", "Hsv"} -> MkOk(PaletteSaturate(self, AsF32(factor)))
      [] OTHER ->
            MkOk(The({to_space(PaletteSaturate(hsv, AsF32(factor)), space(self)) :
                        hsv \in {to_hsv(self)}}))

desaturate(self, factor) ==
    CASE self.variant = "Luma" -> MkErrHint(ErrDesaturate, HintToRgb)
      [] self.variant \in {"Hsl", "Hsv"} ->
            MkOk(PaletteSaturate(self, FNeg(AsF32(factor))))
      [] OTHER ->
            MkOk(The({to_space(PaletteSaturate(hsv, FNeg(AsF32(factor))), space(self)) :
                        hsv \in {to_hsv(self)}}))

\* Hue::into_degrees of palette: the hue in (-180, 180].
into_degrees(h) ==
    IF h.nan THEN h
    ELSE LET m == (h.n + 180 * One) % (360 * One)
         IN  IF m = 0 THEN Deg(180) ELSE F(m - 180 * One)

\* The match of negate on the color already converted to the working space.
negate_in(c) ==
    LET v == c.v
        inv(x) == FSub(Unit, x)
        turn(h) == FAdd(into_degrees(h), Deg(180))
    IN  CASE c.variant = "Luma" -> Luma(inv(v[1]), v[2])
          [] c.variant = "Oklab" ->
                Color("Oklab", <<inv(v[1]), FNeg(v[2]), FNeg(v[3]), v[4]>>)
          [] c.variant = "Oklch" -> Color("Oklch", <<inv(v[1]), v[2], turn(v[3]), v[4]>>)
          [] c.variant \in {"LinearRgb", "Rgb"} ->
                Color(c.variant, <<inv(v[1]), inv(v[2]), inv(v[3]), v[4]>>)
          [] c.variant = "Cmyk" -> Cmyk(inv(v[1]), inv(v[2]), inv(v[3]), v[4])
          [] c.variant \in {"Hsl", "Hsv"} ->
                Color(c.variant, <<turn(v[1]), v[2], v[3], v[4]>>)

\* A variant of negate that returns the color in the working space.
negate_in_place(self, s) == The({negate_in(c) : c \in {to_space(self, s)}})

negate(self, s) ==
    The({to_space(result, space(self)) :
            result \in {negate_in(c) : c \in {to_space(self, s)}}})

ErrRotate == "this colorspace does not support hue rotation"

\* shift_hue of palette's Oklch, Hsl and Hsv.
shift_hue(c, amount) ==
    Color(c.variant,
          [i \in 1..4 |-> IF i = hue_index(space(c)) THEN FAdd(c.v[i], amount) ELSE c.v[i]])

\* A variant of rotate that also rotates in Oklab, by way of Oklch.
rotate_lenient(self, degrees, s) ==
    IF s \in {"Oklch", "Hsl", "Hsv", "Oklab"}
    THEN MkOk(The({to_space(shift_hue(c, Deg(degrees)), space(self)) :
                     c \in {to_space(self, IF s = "Oklab" THEN "Oklch" ELSE s)}}))
    ELSE MkErr(ErrRotate)

rotate(self, degrees, s) ==
    IF s \in {"Oklch", "Hsl", "Hsv"}
    THEN MkOk(The({to_space(shift_hue(c, Deg(degrees)), space(self)) :
                     c \in {to_space(self, s)}}))
    ELSE MkErr(ErrRotate)

mix(colors, s) == mix_iter(colors, s)

\* The index of the alpha field of a variant that has one.
AlphaIndex(variant) == IF variant = "Luma" THEN 2 ELSE 4

MkSome(x) == [ok |-> TRUE, val |-> x]

alpha(self) == IF self.variant = "Cmyk" THEN None ELSE MkSome(self.v[AlphaIndex(self.variant)])

with_alpha(self, a) ==
    IF self.variant = "Cmyk" THEN self
    ELSE Color(self.variant,
               [i \in DOMAIN self.v |-> IF i = AlphaIndex(self.variant) THEN a ELSE self.v[i]])

ErrNoAlpha == "CMYK does not have an alpha component"

\* A variant of `transform` that always moves by scale times the alpha.
transform_by_alpha(a, scale) ==
    LET sc == AsF32(scale)
    IN  Clamp01(FAdd(a, FMul(sc, a)))

\* The inner function `transform` of scale_alpha, on the alpha value.
transform(a, scale) ==
    LET sc == AsF32(scale)
        factor == IF FGt(sc, Zero) THEN FSub(Unit, a) ELSE a
    IN  Clamp01(FAdd(a, FMul(sc, factor)))

\* A variant of scale_alpha that treats the key channel of Cmyk as alpha.
scale_alpha_on_key(self, scale) ==
    MkOk(Color(self.variant,
               [i \in DOMAIN self.v |->
                   IF i = AlphaIndex(self.variant) THEN transform(self.v[i], scale)
                   ELSE self.v[i]]))

scale_alpha(self, scale) ==
    IF self.variant = "Cmyk" THEN MkErr(ErrNoAlpha)
    ELSE MkOk(with_alpha(self, transform(self.v[AlphaIndex(self.variant)], scale)))

transparentize(self, scale) == scale_alpha(self, 0 - scale)

opacify(self, scale) == scale_alpha(self, scale)

(***************************************************************************)
(* The operations as a state machine: a color is constructed, and up to    *)
(* MaxOps operations are applied in sequence, each to the color the        *)
(* previous ones gave.  obs is the current color, arg the last call and    *)
(* res its result.                                                         *)
(***************************************************************************)

\* The most operations applied in sequence.
MaxOps == 2

\* Colors as the validated constructors and from_u8 give them.
OpsSeeds ==
    {from_u8(255, 0, 0, 255),
     Rgb(Half, Zero, Unit, Half),
     Luma(Half, Unit),
     Cmyk(Zero, Half, Unit, Zero),
     Color("LinearRgb", <<Zero, Half, Unit, Unit>>),
     Color("Oklab", <<Half, Minus, Fifth, Unit>>),
     Color("Oklch", <<Half, Fifth, Deg(200), Zero>>),
     Color("Hsl", <<Deg(350), Unit, Half, Half>>),
     Color("Hsv", <<Deg(10), Half, Unit, NaN>>)}

\* The ratio k percent as an f64, in f64 grid steps.
Percent(k) == (k * One * SubSteps) \div 100

\* Scales of transparentize and opacify.
Scales == {Percent(0 - 50), Percent(0), Percent(50), Percent(100), Percent(150)}

\* Factors of lighten, darken, saturate and desaturate.
Factors == {Percent(50), Percent(100)}

\* The second color of a mix: transparent black.
Partner == Rgb(Zero, Zero, Zero, Zero)

\* Pairs of weights of a mix, in f64 grid steps: 1.0 and 1.0, 2.0 and -1.0.
WeightPairs == {<<Percent(100), Percent(100)>>, <<Percent(200), Percent(0 - 100)>>}

Call(name, p, s) ==
    [name |-> name, self |-> obs, p |-> p, space |-> s, n |-> arg.n + 1]

InitOps ==
    /\ op = "new"
    /\ obs \in OpsSeeds
    /\ arg = [name |-> "new", self |-> obs, p |-> 0, space |-> space(obs), n |-> 0]
    /\ res = MkOk(obs)
    /\ cell = [c \in Statics |-> Fresh]
    /\ made = [c \in Statics |-> 0]
    /\ pc = <<>>

\* The common part of every call: the call is recorded, and a color it
\* returns becomes the current color.
Apply(name, p, s, out) ==
    /\ op' = name
    /\ arg' = Call(name, p, s)
    /\ res' = out
    /\ obs' = IF out.ok THEN out.val ELSE obs
    /\ UNCHANGED <<cell, made, pc>>

DoToSpace ==
    /\ arg.n < MaxOps
    /\ \E s \in ColorSpace : \E out \in {to_space(obs, s)} :
           Apply("to_space", 0, s, MkOk(out))

DoLighten ==
    /\ arg.n < MaxOps
    /\ \E f \in Factors : \E out \in {lighten(obs, f)} :
           Apply("lighten", f, space(obs), MkOk(out))

DoDarken ==
    /\ arg.n < MaxOps
    /\ \E f \in Factors : \E out \in {darken(obs, f)} :
           Apply("darken", f, space(obs), MkOk(out))

DoSaturate ==
    /\ arg.n < MaxOps
    /\ \E f \in Factors : \E out \in {saturate(obs, f)} :
           Apply("saturate", f, space(obs), out)

DoDesaturate ==
    /\ arg.n < MaxOps
    /\ \E f \in Factors : \E out \in {desaturate(obs, f)} :
           Apply("desaturate", f, space(obs), out)

DoNegate ==
    /\ arg.n < MaxOps
    /\ \E s \in {"Oklab", "Srgb", "Hsl"} : \E out \in {negate(obs, s)} :
           Apply("negate", 0, s, MkOk(out))

DoRotate ==
    /\ arg.n < MaxOps
    /\ \E s \in ColorSpace : \E out \in {rotate(obs, 90, s)} :
           Apply("rotate", 90, s, out)

DoMix ==
    /\ arg.n < MaxOps
    /\ \E w \in WeightPairs, s \in {"Srgb", "Oklab"} :
           \E out \in {mix(<<[color |-> obs, weight |-> w[1]],
                            [color |-> Partner, weight |-> w[2]]>>, s)} :
               Apply("mix", w, s, out)

DoTransparentize ==
    /\ arg.n < MaxOps
    /\ \E sc \in Scales : \E out \in {transparentize(obs, sc)} :
           Apply("transparentize", sc, space(obs), out)

DoOpacify ==
    /\ arg.n < MaxOps
    /\ \E sc \in Scales : \E out \in {opacify(obs, sc)} :
           Apply("opacify", sc, space(obs), out)

DoWithAlpha ==
    /\ arg.n < MaxOps
    /\ \E a \in {Half, NaN} : \E out \in {with_alpha(obs, a)} :
           Apply("with_alpha", a, space(obs), MkOk(out))

DoNormalize ==
    /\ arg.n < MaxOps
    /\ \E out \in {normalize(obs)} :
           Apply("normalize", 0, space(obs), MkOk(out))

\* alpha() returns no color: the current color stays.
DoAlpha ==
    /\ arg.n < MaxOps
    /\ op' = "alpha"
    /\ arg' = Call("alpha", 0, space(obs))
    /\ res' = alpha(obs)
    /\ UNCHANGED <<obs, cell, made, pc>>

NextOps ==
    \/ DoToSpace
    \/ DoLighten
    \/ DoDarken
    \/ DoSaturate
    \/ DoDesaturate
    \/ DoNegate
    \/ DoRotate
    \/ DoMix
    \/ DoTransparentize
    \/ DoOpacify
    \/ DoWithAlpha
    \/ DoNormalize
    \/ DoAlpha

SpecOps == InitOps /\ [][NextOps]_vars

\* The operations on the alpha channel alone.
NextAlpha ==
    \/ DoTransparentize
    \/ DoOpacify
    \/ DoWithAlpha
    \/ DoAlpha

SpecAlpha == InitOps /\ [][NextAlpha]_vars

\* saturate and desaturate alone.
NextSat ==
    \/ DoSaturate
    \/ DoDesaturate

SpecSat == InitOps /\ [][NextSat]_vars

\* rotate alone.
NextRot == DoRotate

SpecRot == InitOps /\ [][NextRot]_vars

\* The operations that change a color within its space.
NextKeep ==
    \/ DoLighten
    \/ DoDarken
    \/ DoSaturate
    \/ DoDesaturate
    \/ DoNegate
    \/ DoRotate
    \/ DoTransparentize
    \/ DoOpacify

SpecKeep == InitOps /\ [][NextKeep]_vars

\* lighten and darken alone.
NextLight ==
    \/ DoLighten
    \/ DoDarken

SpecLight == InitOps /\ [][NextLight]_vars

\* C14 as stated: after any sequence of operations the current color, if
\* not Cmyk, has an alpha that is missing or within [0, 1].
C14_AlphaInRange ==
    obs.variant # "Cmyk" =>
        LET a == obs.v[AlphaIndex(obs.variant)]
        IN  IsNan(a) \/ (0 <= a.n /\ a.n <= One)

(***************************************************************************)
(* C15: transparentize and opacify on a color with an alpha channel.       *)
(***************************************************************************)

\* The last call was transparentize or opacify on a color that is not Cmyk.
AlphaScaled == op \in {"transparentize", "opacify"} /\ arg.self.variant # "Cmyk"

\* The scale of the last call taken as a scale of opacify, in f64 grid steps.
OpacifyScale == IF op = "opacify" THEN arg.p ELSE 0 - arg.p

\* The alpha the claim states for opacify(s) on alpha a.
StatedAlpha(a, s) ==
    IF s > 0 THEN Clamp01(FAdd(a, FMul(AsF32(s), FSub(Unit, a))))
    ELSE Clamp01(FAdd(a, FMul(AsF32(s), a)))

\* C15: on a color that is not Cmyk, opacify(s) gives the alpha
\* clamp(a + s * (1 - a)) for s > 0 and clamp(a + s * a) for s <= 0, in the
\* same space with the other channels unchanged, and transparentize(s) is
\* opacify(-s).  transparentize(50%) on an opaque Rgb color gives alpha 1/2
\* and opacify(50%) on a Rgb color of alpha 1/2 gives 3/4 (to the grid step).
C15_ScaleAlpha ==
    AlphaScaled =>
        LET self == arg.self
            ai == AlphaIndex(self.variant)
            a == self.v[ai]
        IN  /\ res.ok
            /\ obs = res.val
            /\ obs.variant = self.variant
            /\ DOMAIN obs.v = DOMAIN self.v
            /\ \A i \in DOMAIN self.v :
                   obs.v[i] = IF i = ai THEN StatedAlpha(a, OpacifyScale) ELSE self.v[i]
            /\ transparentize(self, arg.p) = opacify(self, 0 - arg.p)
            /\ (self.variant = "Rgb" /\ op = "transparentize" /\ arg.p = Percent(50)
                  /\ a = Unit)
                  => Abs(2 * obs.v[ai].n - One) <= 2
            /\ (self.variant = "Rgb" /\ op = "opacify" /\ arg.p = Percent(50)
                  /\ a = Half)
                  => Abs(4 * obs.v[ai].n - 3 * One) <= 4

\* An opaque Rgb color was made half transparent and then opacified by 50%:
\* its alpha is now about 3/4.
C15_Witness ==
    /\ op = "opacify"
    /\ arg.p = Percent(50)
    /\ arg.n = 2
    /\ arg.self = with_alpha(from_u8(255, 0, 0, 255), Half)
    /\ res.ok
    /\ FGt(obs.v[4], Half)
    /\ FLt(obs.v[4], Unit)

(***************************************************************************)
(* C16: the alpha operations on a Cmyk color.                              *)
(***************************************************************************)

\* C16: on a Cmyk color transparentize and opacify fail, for every scale,
\* with "CMYK does not have an alpha component" and return no color;
\* alpha() is None and with_alpha returns the color unchanged.
C16_CmykHasNoAlpha ==
    arg.self.variant = "Cmyk" =>
        /\ op \in {"transparentize", "opacify"} =>
               /\ res = MkErr("CMYK does not have an alpha component")
               /\ obs = arg.self
        /\ op = "alpha" => res = None
        /\ op = "with_alpha" => res = MkOk(arg.self) /\ obs = arg.self
        /\ \A sc \in Scales :
               /\ ~transparentize(arg.self, sc).ok
               /\ ~opacify(arg.self, sc).ok

\* A Cmyk color was asked to become more transparent and the call failed.
C16_Witness ==
    /\ op = "transparentize"
    /\ arg.self.variant = "Cmyk"
    /\ arg.p = Percent(50)
    /\ ~res.ok

(***************************************************************************)
(* C17: the naive conversion from Rgb to Cmyk.                             *)
(***************************************************************************)

\* The last step converted an Rgb color to Cmyk.
RgbToCmyk == op = "to_space" /\ Last.space = "Cmyk" /\ Last.self.variant = "Rgb"

\* The quotient of a division by zero.
DivByZero == [nan |-> TRUE, n |-> 1]

\* n / d rounded, for d # 0.
Quot(n, d) == IF d > 0 THEN RoundDiv(n, d) ELSE RoundDiv(0 - n, 0 - d)

\* The ink the naive formula gives for the channel x of a color whose
\* largest channel is mx, all in grid steps: (1 - x - k) / (1 - k) with
\* k = 1 - mx.
Ink(x, mx) == F(Quot(((One - x) - (One - mx)) * One, One - (One - mx)))

\* C17: for an Rgb color k = 1 - max(r, g, b); if k = 1 the result is
\* (0, 0, 0, 1); otherwise c = (1 - r - k) / (1 - k), and likewise m and y.
\* No channel of the result comes from a division by zero, and
\* rgb(1, 0, 0) gives c = 0, m = 1, y = 1, k = 0.
C17_NaiveCmyk ==
    RgbToCmyk =>
        LET r == Last.self.v[1]
            g == Last.self.v[2]
            b == Last.self.v[3]
            mx == FMax(FMax(r, g), b)
        IN  /\ res.variant = "Cmyk"
            /\ \A i \in 1..4 : res.v[i] # DivByZero
            /\ res.v[4] = FSub(Unit, mx)
            /\ res.v[4] = Unit => res = Cmyk(Zero, Zero, Zero, Unit)
            /\ (~IsNan(r) /\ ~IsNan(g) /\ ~IsNan(b) /\ mx.n # 0) =>
                   res = Cmyk(Ink(r.n, mx.n), Ink(g.n, mx.n), Ink(b.n, mx.n),
                              F(One - mx.n))
            /\ Last.self = Rgb(Unit, Zero, Zero, Unit) =>
                   res = Cmyk(Zero, Unit, Unit, Zero)

\* Pure red was converted to Cmyk.
C17_Witness ==
    /\ RgbToCmyk
    /\ Last.self = Rgb(Unit, Zero, Zero, Unit)
    /\ res = Cmyk(Zero, Unit, Unit, Zero)

\* Black was converted to Cmyk: the case k = 1.
C17_WitnessBlack ==
    /\ RgbToCmyk
    /\ Last.self = Rgb(Zero, Zero, Zero, Unit)
    /\ res = Cmyk(Zero, Zero, Zero, Unit)

(***************************************************************************)
(* C18: the conversion from Cmyk to Rgb.                                   *)
(***************************************************************************)

\* The last step converted a Cmyk color to another space.
FromCmyk == op = "to_space" /\ Last.self.variant = "Cmyk" /\ Last.space # "Cmyk"

\* The four bytes round(channel * 255) of a Cmyk color.
BytesOf(c) == [i \in 1..4 |-> ToByte(c.v[i])]

\* Cmyk colors close to c: each channel as it is, a grid step above or
\* below, or 0 in place of a missing one.
Near(c) ==
    {Cmyk(x1, x2, x3, x4) :
        x1 \in {c.v[1], FAdd(c.v[1], F(1))},
        x2 \in {c.v[2], FSub(c.v[2], F(1))},
        x3 \in {c.v[3], IF IsNan(c.v[3]) THEN Zero ELSE c.v[3]},
        x4 \in {c.v[4], IF IsNan(c.v[4]) THEN Zero ELSE FAdd(c.v[4], F(1))}}

\* The values n / 255 of the bytes n.
ByteValues == {FromByte(n) : n \in 0..255}

\* C18: the Rgb color of a Cmyk color depends on the bytes round(channel *
\* 255) alone: Cmyk colors with the same bytes convert to the same color.
\* Each of its color channels is n / 255 for a byte n and its alpha is 1,
\* so every conversion out of Cmyk gives an opaque color.
C18_CmykToRgbOnBytes ==
    FromCmyk =>
        LET self == Last.self
        IN  /\ \A c \in Near(self) :
                   BytesOf(c) = BytesOf(self) => to_space(c, Last.space) = res
            /\ res.v[AlphaIndex(res.variant)] = Unit
            /\ Last.space = "Srgb" =>
                   /\ res.variant = "Rgb"
                   /\ \A i \in 1..3 : res.v[i] \in ByteValues

\* A Cmyk color with a channel between two bytes and a missing channel was
\* converted to Rgb; a color a grid step away has the same bytes.
C18_Witness ==
    /\ FromCmyk
    /\ Last.space = "Srgb"
    /\ Last.self.v[1] = Half
    /\ IsNan(Last.self.v[4])
    /\ res.v[4] = Unit
    /\ \E c \in Near(Last.self) : c # Last.self /\ BytesOf(c) = BytesOf(Last.self)

(***************************************************************************)
(* C19: saturate and desaturate.                                           *)
(***************************************************************************)

\* The last call was saturate or desaturate.
Saturated == op \in {"saturate", "desaturate"}

\* The operation of the last call, applied to the color c.
SameOp(c) == IF op = "saturate" THEN saturate(c, arg.p) ELSE desaturate(c, arg.p)

\* C19: saturate and desaturate fail on a Luma color with "cannot saturate
\* grayscale color" and "cannot desaturate grayscale color" and the hint to
\* convert to RGB first, and return no color.  On Hsl and Hsv only the
\* saturation changes, upwards for saturate and downwards for desaturate.
\* On every other space the result is the color converted to Hsv, changed
\* there and converted back to the space it had.
C19_Saturate ==
    Saturated =>
        LET self == arg.self
        IN  /\ self.variant = "Luma" =>
                   /\ ~res.ok
                   /\ res.err = (IF op = "saturate" THEN "cannot saturate grayscale color"
                                  ELSE "cannot desaturate grayscale color")
                   /\ res.hint = "try converting your color to RGB first"
                   /\ obs = self
            /\ self.variant \in {"Hsl", "Hsv"} =>
                   /\ res.ok
                   /\ obs = res.val
                   /\ obs.variant = self.variant
                   /\ \A i \in {1, 3, 4} : obs.v[i] = self.v[i]
                   /\ ~IsNan(self.v[2]) =>
                          IF op = "saturate" THEN FGe(obs.v[2], self.v[2])
                          ELSE FLe(obs.v[2], self.v[2])
            /\ self.variant \notin {"Luma", "Hsl", "Hsv"} =>
                   /\ res.ok
                   /\ obs = res.val
                   /\ space(obs) = space(self)
                   /\ SameOp(to_hsv(self)).ok
                   /\ obs = to_space(SameOp(to_hsv(self)).val, space(self))

\* An Rgb color was desaturated by way of Hsv and changed.
C19_Witness ==
    /\ op = "desaturate"
    /\ arg.self.variant = "Rgb"
    /\ res.ok
    /\ obs.variant = "Rgb"
    /\ obs # arg.self

\* A Luma color was asked to saturate and the call failed.
C19_WitnessLuma ==
    /\ op = "saturate"
    /\ arg.self.variant = "Luma"
    /\ ~res.ok

(***************************************************************************)
(* C20: rotate.                                                            *)
(***************************************************************************)

\* C20: rotate succeeds exactly when the requested space is Oklch, Hsl or
\* Hsv, whatever the space of the receiver, and then returns a color in the
\* receiver's space; for every other requested space it fails with "this
\* colorspace does not support hue rotation" and returns no color.
C20_RotateSpaces ==
    op = "rotate" =>
        /\ res.ok <=> arg.space \in {"Oklch", "Hsl", "Hsv"}
        /\ res.ok => obs = res.val /\ space(obs) = space(arg.self)
        /\ ~res.ok =>
               /\ arg.space \in {"Oklab", "Srgb", "D65Gray", "LinearRgb", "Cmyk"}
               /\ res = MkErr("this colorspace does not support hue rotation")
               /\ obs = arg.self

\* A Cmyk color was rotated in Hsl, and the color it gave was then asked to
\* rotate in Oklab, which failed.
C20_Witness ==
    /\ op = "rotate"
    /\ arg.n = 2
    /\ arg.self.variant = "Cmyk"
    /\ arg.self # Cmyk(Zero, Half, Unit, Zero)
    /\ arg.space = "Oklab"
    /\ ~res.ok

\* A Luma color was rotated in Hsv.
C20_WitnessHsv ==
    /\ op = "rotate"
    /\ arg.self.variant = "Luma"
    /\ arg.space = "Hsv"
    /\ res.ok

(***************************************************************************)
(* C21: the operations keep the space of the receiver.                     *)
(***************************************************************************)

\* The operations C21 is about.
KeepOps ==
    {"lighten", "darken", "saturate", "desaturate", "negate", "rotate",
     "transparentize", "opacify"}

\* C21: when lighten, darken, saturate, desaturate, negate, rotate,
\* transparentize or opacify succeeds, the color it returns is in the space
\* of its receiver, whatever space was requested or used on the way.
C21_SpaceKept ==
    (op \in KeepOps /\ res.ok) =>
        /\ obs = res.val
        /\ space(res.val) = space(arg.self)
        /\ res.val.variant = arg.self.variant

\* A LinearRgb color was negated in Hsl and came back as LinearRgb, changed.
C21_Witness ==
    /\ op = "negate"
    /\ arg.space = "Hsl"
    /\ arg.self.variant = "LinearRgb"
    /\ res.ok
    /\ res.val.variant = "LinearRgb"
    /\ res.val # arg.self

(***************************************************************************)
(* mod.rs: the casts of the component wrappers.  A value is an integer, a  *)
(* ratio, a float, an angle or none; ratios, floats and angles are f64     *)
(* values in f64 grid steps, and a float may be infinite or NaN.  Each     *)
(* cast is given the kinds of value it lists.                              *)
(***************************************************************************)

IntV(n) == [type |-> "int", n |-> n]

RatioV(w) == [type |-> "ratio", w |-> w]

FloatV(w) == [type |-> "float", class |-> "finite", w |-> w]

\* An infinite or NaN float.
FloatBad(class) == [type |-> "float", class |-> class, w |-> 0]

AngleV(w) == [type |-> "angle", w |-> w]

NoneV == [type |-> "none"]

ErrNumber == "number must be between 0 and 255"

ErrRatio == "ratio must be between 0% and 100%"

ErrFinite == "number must neither be infinite nor NaN"

\* (0.0..=1.0).contains(&v.get())
InUnitRange(w) == 0 <= w /\ w <= One * SubSteps

\* A variant of the cast of Component that takes 256 for an integer too.
Component_upto256(v) ==
    CASE v.type = "int" ->
            IF 0 <= v.n /\ v.n <= 256 THEN MkOk(FromByte(v.n)) ELSE MkErr(ErrNumber)
      [] v.type = "ratio" -> IF InUnitRange(v.w) THEN MkOk(AsF32(v.w)) ELSE MkErr(ErrRatio)
      [] v.type = "none" -> MkOk(NaN)

Component(v) ==
    CASE v.type = "int" ->
            IF 0 <= v.n /\ v.n <= 255 THEN MkOk(FromByte(v.n)) ELSE MkErr(ErrNumber)
      [] v.type = "ratio" -> IF InUnitRange(v.w) THEN MkOk(AsF32(v.w)) ELSE MkErr(ErrRatio)
      [] v.type = "none" -> MkOk(NaN)

RatioComponent(v) ==
    CASE v.type = "ratio" -> IF InUnitRange(v.w) THEN MkOk(AsF32(v.w)) ELSE MkErr(ErrRatio)
      [] v.type = "none" -> MkOk(NaN)

AngleComponent(v) ==
    CASE v.type = "angle" -> MkOk(AsF32(v.w))
      [] v.type = "none" -> MkOk(NaN)

\* (v.get() * 0.4) as f32: the product is rounded to f64 first.
ChromaComponent(v) ==
    CASE v.type = "float" ->
            IF v.class = "finite" THEN MkOk(AsF32(v.w)) ELSE MkErr(ErrFinite)
      [] v.type = "ratio" -> MkOk(AsF32(RoundDiv(v.w * 4, 10)))
      [] v.type = "none" -> MkOk(NaN)

\* How far the integers given to Component go beyond 0 and 255.
MaxOver == 2

Ints == {IntV(n) : n \in (0 - MaxOver)..(255 + MaxOver)}

\* f64 values around 0 and 1 and beyond, in f64 grid steps.
Reals ==
    {0 - One * SubSteps, 0 - 1, 0, 1, (One * SubSteps) \div 2, One * SubSteps - 1,
     One * SubSteps, One * SubSteps + 1, 2 * One * SubSteps}

Ratios == {RatioV(w) : w \in Reals}

Floats == {FloatV(w) : w \in Reals} \cup {FloatBad(c) : c \in {"inf", "-inf", "nan"}}

Angles == {AngleV(w * d) : w \in {0 - SubSteps, 1, SubSteps}, d \in {1, 90 * One, 720 * One}}

\* The values each cast lists.
CastInputs(wrapper) ==
    CASE wrapper = "Component" -> Ints \cup Ratios \cup {NoneV}
      [] wrapper = "RatioComponent" -> Ratios \cup {NoneV}
      [] wrapper = "AngleComponent" -> Angles \cup {NoneV}
      [] wrapper = "ChromaComponent" -> Floats \cup Ratios \cup {NoneV}

InitCast ==
    /\ op = "idle"
    /\ arg = NoneV
    /\ res = None
    /\ LazyIdle

Cast(wrapper, out) ==
    /\ op' = wrapper
    /\ res' = out
    /\ UNCHANGED <<cell, made, pc, obs>>

CastComponent ==
    \E v \in CastInputs("Component") : arg' = v /\ Cast("Component", Component(v))

CastRatioComponent ==
    \E v \in CastInputs("RatioComponent") :
        arg' = v /\ Cast("RatioComponent", RatioComponent(v))

CastAngleComponent ==
    \E v \in CastInputs("AngleComponent") :
        arg' = v /\ Cast("AngleComponent", AngleComponent(v))

CastChromaComponent ==
    \E v \in CastInputs("ChromaComponent") :
        arg' = v /\ Cast("ChromaComponent", ChromaComponent(v))

NextCast ==
    \/ CastComponent
    \/ CastRatioComponent
    \/ CastAngleComponent
    \/ CastChromaComponent

SpecCast == InitCast /\ [][NextCast]_vars

\* The result of a cast is a component within [0, 1].
InUnit(r) == r.ok /\ ~IsNan(r.val) /\ 0 <= r.val.n /\ r.val.n <= One

\* C22: Component takes an integer n only when 0 <= n <= 255, giving
\* n / 255, and fails otherwise with "number must be between 0 and 255"; it
\* and RatioComponent take a ratio only within [0%, 100%] and fail otherwise
\* with "ratio must be between 0% and 100%"; a failed cast gives no
\* component.  ChromaComponent rejects infinite and NaN floats, none gives
\* the missing value in every wrapper, and every angle is accepted.
C22_Casts ==
    /\ (op = "Component" /\ arg.type = "int") =>
           IF 0 <= arg.n /\ arg.n <= 255
           THEN res = MkOk(F(RoundDiv(arg.n * One, 255))) /\ InUnit(res)
           ELSE res = MkErr("number must be between 0 and 255")
    /\ (op \in {"Component", "RatioComponent"} /\ arg.type = "ratio") =>
           IF 0 <= arg.w /\ arg.w <= One * SubSteps
           THEN InUnit(res) /\ Abs(res.val.n * SubSteps - arg.w) < SubSteps
           ELSE res = MkErr("ratio must be between 0% and 100%")
    /\ (op = "ChromaComponent" /\ arg.type = "float") =>
           (res.ok <=> arg.class = "finite")
    /\ (op = "ChromaComponent" /\ arg.type = "ratio") => res.ok
    /\ (op # "idle" /\ arg.type = "none") => res = MkOk(NaN)
    /\ (op = "AngleComponent" /\ arg.type = "angle") => res.ok /\ ~IsNan(res.val)
    /\ (op # "idle" /\ ~res.ok) => DOMAIN res = {"ok", "err"}

\* Component was given the integer 256 and failed.
C22_Witness ==
    /\ op = "Component"
    /\ arg = IntV(256)
    /\ res = MkErr(ErrNumber)

(***************************************************************************)
(* typst-pdf image.rs: the color space of raster images.  arg holds the    *)
(* images of the document with their deferred encodings, obs the image     *)
(* objects write_images has put in the chunk.                              *)
(***************************************************************************)

\* The most images in a document.
MaxImages == 2

\* image::ColorType
GrayTypes == {"L8", "La8", "L16", "La16"}

RgbTypes == {"Rgb8", "Rgba8", "Rgb16", "Rgba16", "Rgb32F", "Rgba32F"}

ColorType == GrayTypes \cup RgbTypes

has_alpha(color) == color \in {"La8", "La16", "Rgba8", "Rgba16", "Rgba32F"}

\* The panic of unimplemented!().
Unimplemented == "unimplemented"

\* A variant of to_color_space that takes float pixels for linear RGB.
to_color_space_linear(color) ==
    CASE color \in GrayTypes -> "D65Gray"
      [] color \in {"Rgb32F", "Rgba32F"} -> "LinearRgb"
      [] color \in RgbTypes -> "Srgb"
      [] OTHER -> Unimplemented

to_color_space(color) ==
    CASE color \in GrayTypes -> "D65Gray"
      [] color \in RgbTypes -> "Srgb"
      [] OTHER -> Unimplemented

\* The images: raster images by format, pixel type and presence of an ICC
\* profile, and one vector graphic.
Images ==
    {[kind |-> "Raster", format |-> f, color |-> c, icc |-> i] :
        f \in {"Jpg", "Png"}, c \in ColorType, i \in BOOLEAN}
      \cup {[kind |-> "Svg"]}

encode_raster_jpeg(image) ==
    [tag |-> "Raster",
     filter |-> "DctDecode",
     color_space |-> to_color_space(image.color),
     compressed_icc |-> image.icc,
     alpha |-> has_alpha(image.color)]

encode_raster_flate(image) ==
    [tag |-> "Raster",
     filter |-> "FlateDecode",
     color_space |-> to_color_space(image.color),
     compressed_icc |-> image.icc,
     alpha |-> has_alpha(image.color)]

\* The closure deferred_image defers.
deferred_image(image) ==
    CASE image.kind = "Raster" /\ image.format = "Jpg" -> encode_raster_jpeg(image)
      [] image.kind = "Raster" -> encode_raster_flate(image)
      [] OTHER -> [tag |-> "Svg"]

\* What write_images writes for one encoded image: the color space entry of
\* the image object, whether it has a soft mask, and the entries of its ICC
\* profile stream, if it has one.
written(encoded) ==
    IF encoded.tag = "Svg" THEN [object |-> "Svg"]
    ELSE [object |-> "Image",
          filter |-> encoded.filter,
          space |-> IF encoded.compressed_icc THEN "ICCBased" ELSE encoded.color_space,
          s_mask |-> encoded.alpha,
          icc_profile |-> IF ~encoded.compressed_icc THEN "none"
                          ELSE CASE encoded.color_space = "Srgb" -> "n 3, alternate srgb"
                                 [] encoded.color_space = "D65Gray" -> "n 1, alternate d65_gray"
                                 [] OTHER -> Unimplemented]

\* The image objects of a list of images, each image once.
RECURSIVE WriteAll(_, _)
WriteAll(items, done) ==
    IF items = <<>> THEN <<>>
    ELSE IF Head(items).image \in done THEN WriteAll(Tail(items), done)
    ELSE <<written(Head(items).encoded)>>
           \o WriteAll(Tail(items), done \cup {Head(items).image})

\* write_images panics when an image object cannot be written.
write_images(items) ==
    LET out == WriteAll(items, {})
    IN  IF \E i \in 1..Len(out) : out[i].object = "Image" /\ out[i].icc_profile = Unimplemented
        THEN MkErr(Unimplemented)
        ELSE MkOk(out)

InitPdf ==
    /\ op = "new"
    /\ arg = <<>>
    /\ res = None
    /\ cell = [c \in Statics |-> Fresh]
    /\ made = [c \in Statics |-> 0]
    /\ pc = <<>>
    /\ obs = <<>>

\* An image is used in the document and its encoding is deferred.
DeferImage ==
    /\ op # "write_images"
    /\ Len(arg) < MaxImages
    /\ \E image \in Images :
           /\ arg' = Append(arg, [image |-> image, encoded |-> deferred_image(image)])
           /\ res' = MkOk(deferred_image(image))
    /\ op' = "deferred_image"
    /\ UNCHANGED <<cell, made, pc, obs>>

\* The document is exported.
WriteImages ==
    /\ op # "write_images"
    /\ op' = "write_images"
    /\ res' = write_images(arg)
    /\ obs' = IF write_images(arg).ok THEN write_images(arg).val ELSE obs
    /\ UNCHANGED <<arg, cell, made, pc>>

NextPdf ==
    \/ DeferImage
    \/ WriteImages

SpecPdf == InitPdf /\ [][NextPdf]_vars

\* C23: the color space stored for every raster image is Srgb or D65Gray,
\* so write_images never reaches unimplemented!() when it writes the ICC
\* profile stream of an image.
C23_OnlySrgbAndGray ==
    /\ \A i \in 1..Len(arg) :
           arg[i].encoded.tag = "Raster" =>
               arg[i].encoded.color_space \in {"Srgb", "D65Gray"}
    /\ op = "write_images" =>
           /\ res.ok
           /\ \A i \in 1..Len(obs) :
                  obs[i].object = "Image" =>
                      obs[i].icc_profile \in
                          {"none", "n 3, alternate srgb", "n 1, alternate d65_gray"}

\* A document with a float RGB image and a gray image, both with an ICC
\* profile, was exported: the profile streams have 3 and 1 components.
C23_Witness ==
    /\ op = "write_images"
    /\ Len(arg) = 2
    /\ arg[1].image = [kind |-> "Raster", format |-> "Png", color |-> "Rgba32F", icc |-> TRUE]
    /\ arg[2].image = [kind |-> "Raster", format |-> "Jpg", color |-> "L8", icc |-> TRUE]
    /\ Len(obs) = 2
    /\ obs[1].icc_profile = "n 3, alternate srgb"
    /\ obs[2].icc_profile = "n 1, alternate d65_gray"

(***************************************************************************)
(* C24: lighten and darken.                                                *)
(***************************************************************************)

\* The last call was lighten or darken.
Lightened == op \in {"lighten", "darken"}

\* u -> clamp(u - u * factor, 0, 1)
TowardsZero(u, factor) == Clamp01(FSub(u, FMul(u, AsF32(factor))))

\* u -> clamp(u + (1 - u) * factor, 0, 1)
TowardsOne(u, factor) == Clamp01(FAdd(u, FMul(FSub(Unit, u), AsF32(factor))))

\* The channels the claim names for a variant: the three color channels of
\* Rgb and LinearRgb, the lightness or value of Hsl and Hsv, the four inks
\* of Cmyk.
NamedChannels(variant) ==
    CASE variant \in {"Rgb", "LinearRgb"} -> {1, 2, 3}
      [] variant \in {"Hsl", "Hsv"} -> {3}
      [] variant = "Cmyk" -> {1, 2, 3, 4}
      [] OTHER -> {}

\* The channel that carries the lightness of Luma, Oklab and Oklch.
FirstChannel(variant) == IF variant \in {"Luma", "Oklab", "Oklch"} THEN {1} ELSE {}

\* C24 as stated: lighten applies u -> clamp(u - u * factor) and darken
\* u -> clamp(u + (1 - u) * factor) to the named channels of Rgb, LinearRgb,
\* Hsl, Hsv and Cmyk colors, and no other channel changes.
C24_InkFormulaEverywhere ==
    (Lightened /\ NamedChannels(arg.self.variant) # {}) =>
        \A i \in DOMAIN arg.self.v :
            obs.v[i] =
                IF i \notin NamedChannels(arg.self.variant) THEN arg.self.v[i]
                ELSE IF op = "lighten" THEN TowardsZero(arg.self.v[i], arg.p)
                ELSE TowardsOne(arg.self.v[i], arg.p)

\* C24, amended: for a factor in [0, 1] and channels in [0, 1], on a Cmyk
\* color lighten applies u -> clamp(u - u * factor) and darken
\* u -> clamp(u + (1 - u) * factor) to the four inks; on every other color
\* it is the other way round, lighten applies u -> clamp(u + (1 - u) *
\* factor) and darken u -> clamp(u - u * factor), to the three color
\* channels of Rgb and LinearRgb, the lightness or value of Hsl and Hsv and
\* the first channel of Luma, Oklab and Oklch.  The variant, the alpha and
\* every other channel are unchanged.
C24_LightenDarken ==
    Lightened =>
        LET self == arg.self
            chans == NamedChannels(self.variant) \cup FirstChannel(self.variant)
            less == (op = "lighten") <=> (self.variant = "Cmyk")
        IN  /\ res.ok
            /\ obs = res.val
            /\ obs.variant = self.variant
            /\ DOMAIN obs.v = DOMAIN self.v
            /\ \A i \in DOMAIN self.v :
                   obs.v[i] =
                       IF i \notin chans THEN self.v[i]
                       ELSE IF less THEN TowardsZero(self.v[i], arg.p)
                       ELSE TowardsOne(self.v[i], arg.p)
            /\ self.variant # "Cmyk" =>
                   obs.v[AlphaIndex(self.variant)] = self.v[AlphaIndex(self.variant)]

\* An Rgb color was lightened by 50% and its blue-free channels rose.
C24_Witness ==
    /\ op = "lighten"
    /\ arg.p = Percent(50)
    /\ arg.self = Rgb(Half, Zero, Unit, Half)
    /\ res.ok
    /\ FGt(obs.v[1], Half)
    /\ FGt(obs.v[2], Zero)
    /\ obs.v[3] = Unit
    /\ obs.v[4] = Half

(***************************************************************************)
(* C25: the routing of the conversions.                                    *)
(***************************************************************************)

\* The variant rotate expects of a color converted to a hue space.
Expected(s) == CASE s = "Oklch" -> "Oklch" [] s = "Hsl" -> "Hsl" [] s = "Hsv" -> "Hsv"

\* C25: a color converted to a space is in that space, for every color and
\* every space, so the color rotate converts to Oklch, Hsl or Hsv is of the
\* variant it matches on and its unreachable!() is never executed.
C25_Routing ==
    op = "to_space" =>
        /\ space(res) = Last.space
        /\ \A s \in ColorSpace : \A c \in {to_space(Last.self, s)} :
               /\ space(c) = s
               /\ s \in {"Oklch", "Hsl", "Hsv"} => c.variant = Expected(s)

\* A Cmyk color was converted to Oklch and the result again to Hsv.
C25_Witness ==
    /\ op = "to_space"
    /\ Len(arg) = 2
    /\ arg[1].self.variant = "Cmyk"
    /\ arg[1].space = "Oklch"
    /\ arg[2].self.variant = "Oklch"
    /\ arg[2].space = "Hsv"
    /\ res.variant = "Hsv"

(***************************************************************************)
(* C26: a missing channel in a comparison.                                 *)
(***************************************************************************)

\* C26 as stated: two colors of the same space of which one has a channel
\* missing that the other has present are never equal.
C26_MissingEqualsOnlyMissing ==
    (op = "eq" /\ arg[1].variant = arg[2].variant /\ res.eq) =>
        \A i \in DOMAIN arg[1].v : IsNan(arg[1].v[i]) <=> IsNan(arg[2].v[i])

(***************************************************************************)
(* C27: the hex form of an Rgb color parsed back.                          *)
(***************************************************************************)

\* The hex form of an Rgb color with no channel missing was parsed back.
RgbParsedBack ==
    /\ op = "parse_hex"
    /\ arg.variant = "Rgb"
    /\ \A i \in 1..4 : ~IsNan(arg.v[i])

\* C27: for an Rgb color with no missing channel, channels outside [0, 1]
\* included, parsing its hex form succeeds and gives a color equal to it.
C27_HexRoundTrip ==
    RgbParsedBack => res.ok /\ eq(res.val, arg) /\ eq(arg, res.val)

\* An Rgb color with red below 0, green between two bytes and alpha above 1
\* was formatted and parsed back.
C27_Witness ==
    /\ RgbParsedBack
    /\ FLt(arg.v[1], Zero)
    /\ arg.v[2] = Half
    /\ FGt(arg.v[4], Unit)
    /\ res.ok
    /\ res.val # arg

(***************************************************************************)
(* C28: the steps of from_str that can panic.  A str is indexed by bytes:  *)
(* a character of ASCII takes one byte of UTF-8, "U+00E9" takes two.       *)
(***************************************************************************)

\* char::len_utf8
len_utf8(ch) == IF ch = "U+00E9" THEN 2 ELSE 1

\* str::len, in bytes.
RECURSIVE str_len(_)
str_len(s) == IF s = <<>> THEN 0 ELSE len_utf8(Head(s)) + str_len(Tail(s))

\* str::is_char_boundary
is_char_boundary(s, index) ==
    \E k \in 0..Len(s) : str_len(SubSeq(s, 1, k)) = index

\* &s[from..to] does not panic.
SliceInBounds(s, from, to) ==
    /\ from <= to
    /\ to <= str_len(s)
    /\ is_char_boundary(s, from)
    /\ is_char_boundary(s, to)

\* The characters of &s[from..to].
Slice(s, from, to) ==
    LET first == CHOOSE k \in 0..Len(s) : str_len(SubSeq(s, 1, k)) = from
        last == CHOOSE k \in 0..Len(s) : str_len(SubSeq(s, 1, k)) = to
    IN  SubSeq(s, first + 1, last)

\* u8::from_str_radix(item, 16) is Ok: a digit string, with an optional
\* leading '+', whose value fits a u8.
RadixIsOk(item) ==
    LET digits == IF Len(item) > 0 /\ item[1] = "+" THEN Tail(item) ELSE item
    IN  /\ Len(digits) > 0
        /\ \A i \in 1..Len(digits) : is_ascii_hexdigit(digits[i])
        /\ \/ Len(digits) = 1
           \/ Len(digits) = 2 /\ 16 * DigitValue(digits[1]) + DigitValue(digits[2]) <= 255

NoPanic == "none"

PanicSlice == "byte index out of bounds or not a char boundary"

PanicUnwrap == "called unwrap on an Err value"

PanicOverflow == "attempt to add or multiply with overflow"

\* A variant of ElemPanic whose items always have two characters.
ElemPanic_wide(hex_str, elem, long, short) ==
    LET item_len == 2
        pos == elem * item_len
    IN  IF ~SliceInBounds(hex_str, pos, pos + item_len) THEN PanicSlice
        ELSE LET item == Slice(hex_str, pos, pos + item_len)
             IN  IF ~RadixIsOk(item) THEN PanicUnwrap
                 ELSE IF short /\ from_str_radix(item) * 16 > 255 THEN PanicOverflow
                 ELSE IF short /\ from_str_radix(item) + from_str_radix(item) * 16 > 255
                 THEN PanicOverflow
                 ELSE NoPanic

\* The panic of one round of the loop of from_str, NoPanic when the round
\* completes: the slice, the unwrap, the product and the sum, in this order.
ElemPanic(hex_str, elem, long, short) ==
    LET item_len == IF long THEN 2 ELSE 1
        pos == elem * item_len
    IN  IF ~SliceInBounds(hex_str, pos, pos + item_len) THEN PanicSlice
        ELSE LET item == Slice(hex_str, pos, pos + item_len)
             IN  IF ~RadixIsOk(item) THEN PanicUnwrap
                 ELSE IF short /\ from_str_radix(item) * 16 > 255 THEN PanicOverflow
                 ELSE IF short /\ from_str_radix(item) + from_str_radix(item) * 16 > 255
                 THEN PanicOverflow
                 ELSE NoPanic

\* The panic of from_str on str, NoPanic when it returns Ok or Err.
from_str_panic(str) ==
    LET hex_str == strip_prefix(str)
        len == str_len(hex_str)
        long == len = 6 \/ len = 8
        short == len = 3 \/ len = 4
        elems == IF len = 4 \/ len = 8 THEN 0..3 ELSE 0..2
        failed == {e \in elems : ElemPanic(hex_str, e, long, short) # NoPanic}
    IN  IF \E i \in 1..Len(hex_str) : ~is_ascii_hexdigit(hex_str[i]) THEN NoPanic
        ELSE IF ~long /\ ~short THEN NoPanic
        ELSE IF failed = {} THEN NoPanic
        ELSE ElemPanic(hex_str, CHOOSE e \in failed : \A d \in failed : e <= d, long, short)

\* C28: from_str returns on every input string (empty, only '#', several
\* '#', characters outside ASCII, any length): no slice leaves the string,
\* no unwrap fails, the shorthand arithmetic stays within a u8, and the
\* result is Ok or one of the two errors.
C28_FromStrTotal ==
    op = "from_str" =>
        /\ from_str_panic(arg) = NoPanic
        /\ res.ok \/ res.err \in {ErrNonHex, ErrLength}

\* The shorthand with the largest digits was parsed: each byte is 255.
C28_Witness ==
    /\ op = "from_str"
    /\ arg = <<"#", "f", "F", "f", "f">>
    /\ from_str_panic(arg) = NoPanic
    /\ res.ok
    /\ res.val = from_u8(255, 255, 255, 255)

\* A string with a character outside ASCII after a '#' was rejected.
C28_WitnessNonAscii ==
    /\ op = "from_str"
    /\ arg = <<"#", "1", "U+00E9", "f">>
    /\ str_len(arg) = 5
    /\ ~res.ok
    /\ res.err = ErrNonHex

(***************************************************************************)
(* C29: the operations as callers of cmyk.rs.  Each operation is the       *)
(* sequence of conversions it runs, a conversion the pair of the space of  *)
(* the color converted and the space asked for; Cmyk::to_rgba dereferences *)
(* TO_SRGB, whose initialiser dereferences the two profiles.               *)
(***************************************************************************)

\* A variant of ConversionArm whose to_cmyk sends an Rgb color through the
\* transform.
ConversionArm_profiled(from, to) ==
    IF to = "Cmyk"
    THEN CASE from = "D65Gray" -> "Cmyk::from_luma"
           [] from = "Cmyk" -> "identity"
           [] from = "Srgb" -> "Cmyk::to_rgba"
           [] OTHER -> "Cmyk::from_rgba"
    ELSE IF from = "Cmyk" THEN "Cmyk::to_rgba"
    ELSE IF from = to THEN "identity"
    ELSE "from_color"

\* The function of cmyk.rs or palette that the arm of to_<to> calls for a
\* color of space from.
ConversionArm(from, to) ==
    IF to = "Cmyk"
    THEN CASE from = "D65Gray" -> "Cmyk::from_luma"
           [] from = "Cmyk" -> "identity"
           [] OTHER -> "Cmyk::from_rgba"
    ELSE IF from = "Cmyk" THEN "Cmyk::to_rgba"
    ELSE IF from = to THEN "identity"
    ELSE "from_color"

\* The operations of a color, and the spaces an operation can be given.
ProfileOps ==
    {"to_space", "to_hex", "lighten", "darken", "saturate", "desaturate", "negate",
     "rotate", "mix", "transparentize", "opacify", "with_alpha", "normalize", "alpha",
     "eq", "to_vec4_u8"}

\* The conversions that operation name runs on a color of space from, given
\* the space s; a mix is of the color and one partner of space with.
ConversionsOf(name, from, s, with) ==
    CASE name = "to_space" -> <<<<from, s>>>>
      [] name = "to_hex" -> <<<<from, "Srgb">>>>
      [] name \in {"saturate", "desaturate"} ->
            IF from \in {"D65Gray", "Hsl", "Hsv"} THEN <<>>
            ELSE <<<<from, "Hsv">>, <<"Hsv", from>>>>
      [] name = "negate" -> <<<<from, s>>, <<s, from>>>>
      [] name = "rotate" ->
            IF s \in HueSpaces THEN <<<<from, s>>, <<s, from>>>> ELSE <<>>
      [] name = "mix" -> <<<<from, s>>, <<with, s>>>>
      [] OTHER -> <<>>

\* The space of the color an operation returns; the receiver's space when
\* it returns no color.
ResultSpace(name, from, s) ==
    CASE name \in {"to_space", "mix"} -> s
      [] name = "to_hex" -> from
      [] OTHER -> from

\* The conversions of a sequence that call Cmyk::to_rgba.
Consulting(convs) ==
    {i \in DOMAIN convs : ConversionArm(convs[i][1], convs[i][2]) = "Cmyk::to_rgba"}

\* obs is the space of the current color, pc the conversions made so far,
\* and res the number of times the transform was consulted.
InitProfile ==
    /\ op = "new"
    /\ obs \in ColorSpace
    /\ arg = [name |-> "new", self |-> obs, space |-> obs, with |-> obs, n |-> 0]
    /\ res = 0
    /\ cell = [c \in Statics |-> Fresh]
    /\ made = [c \in Statics |-> 0]
    /\ pc = <<>>

\* An operation is called on the current color.  The first conversion that
\* calls Cmyk::to_rgba forces TO_SRGB, and with it the two profiles; every
\* such conversion reads the transform.
Operate ==
    /\ arg.n < MaxOps
    /\ \E name \in ProfileOps, s \in ColorSpace, with \in {"Srgb", "Cmyk"} :
          LET convs == ConversionsOf(name, obs, s, with)
              forced == Consulting(convs) # {}
          IN  /\ name \notin {"to_space", "negate", "rotate", "mix"} => s = obs
              /\ name # "mix" => with = "Srgb"
              /\ op' = name
              /\ arg' = [name |-> name, self |-> obs, space |-> s, with |-> with,
                         n |-> arg.n + 1]
              /\ pc' = pc \o convs
              /\ res' = res + Cardinality(Consulting(convs))
              /\ obs' = ResultSpace(name, obs, s)
              /\ cell' = [c \in Statics |-> IF forced THEN Built ELSE cell[c]]
              /\ made' = [c \in Statics |->
                            IF forced /\ MayInitialise(c) THEN made[c] + 1 ELSE made[c]]

NextProfile == Operate

SpecProfile == InitProfile /\ [][NextProfile]_vars

\* A conversion of a Cmyk color to another space.
OutOfCmyk(conv) == conv[1] = "Cmyk" /\ conv[2] # "Cmyk"

\* C29: while no Cmyk color has been converted to another space, none of
\* the two profiles and the transform is constructed and the transform is
\* not consulted; an operation that converts no Cmyk color to another
\* space, a conversion into Cmyk included, constructs nothing and does not
\* consult the transform; and each of the three is constructed at most once.
C29_OnlyOutOfCmyk ==
    /\ []((\A i \in DOMAIN pc : ~OutOfCmyk(pc[i])) =>
             /\ \A c \in Statics : cell[c] = Fresh /\ made[c] = 0
             /\ res = 0)
    /\ []((\E i \in DOMAIN pc : OutOfCmyk(pc[i])) =>
             /\ \A c \in Statics : cell[c] = Built /\ made[c] = 1
             /\ res = Cardinality({i \in DOMAIN pc : OutOfCmyk(pc[i])}))
    /\ [][(\A i \in (Len(pc) + 1)..Len(pc') : ~OutOfCmyk(pc'[i])) =>
             cell' = cell /\ made' = made /\ res' = res]_vars

\* An Rgb color was converted into Cmyk with nothing constructed, and the
\* Cmyk color was then saturated, which converted it to Hsv and back into
\* Cmyk: the three statics were constructed once and the transform
\* consulted once.
C29_Witness ==
    /\ pc = <<<<"Srgb", "Cmyk">>, <<"Cmyk", "Hsv">>, <<"Hsv", "Cmyk">>>>
    /\ op = "saturate"
    /\ \A c \in Statics : cell[c] = Built /\ made[c] = 1
    /\ res = 1

(***************************************************************************)
(* C30: two weighted colors mixed in both orders.                          *)
(***************************************************************************)

\* Weights, in f64 grid steps: -1.0, 0, one too small for the f32 grid, one
\* f32 step, and 1.0.
SwapWeights == {0 - One * SubSteps, 0, 1, SubSteps, One * SubSteps}

SwapColors == PairColors \cup {Cmyk(Zero, Half, Unit, Zero), Luma(Half, Half)}

InitSwap ==
    /\ op = "idle"
    /\ arg = <<>>
    /\ res = None
    /\ LazyIdle

\* mix([(a, wa), (b, wb)], space) and mix([(b, wb), (a, wa)], space).
MixBothOrders ==
    /\ op = "idle"
    /\ \E a \in SwapColors, b \in SwapColors, wa \in SwapWeights, wb \in SwapWeights,
          s \in ColorSpace :
        LET ab == <<[color |-> a, weight |-> wa], [color |-> b, weight |-> wb]>>
            ba == <<[color |-> b, weight |-> wb], [color |-> a, weight |-> wa]>>
        IN  /\ arg' = ab
            /\ res' = [space |-> s, out |-> mix_iter(ab, s), swapped |-> mix_iter(ba, s)]
    /\ op' = "mix"
    /\ UNCHANGED <<cell, made, pc, obs>>

NextSwap == MixBothOrders

SpecSwap == InitSwap /\ [][NextSwap]_vars

\* C30: the two orders of a mix of two colors either fail with the same
\* error or succeed with equal colors, in every target space, for all
\* weights, the hue wrap-around included.
C30_OrderIndependent ==
    op = "mix" =>
        IF res.out.ok
        THEN /\ res.swapped.ok
             /\ eq(res.out.val, res.swapped.val)
             /\ eq(res.swapped.val, res.out.val)
        ELSE res.swapped = res.out

\* Hues of 10 and 350 degrees were mixed in Hsl with different weights:
\* 360 degrees were added to the smaller hue in both orders.
C30_Witness ==
    /\ op = "mix"
    /\ res.space = "Hsl"
    /\ arg[1].color = Color("Hsl", <<Deg(10), Unit, Half, Unit>>)
    /\ arg[2].color = Color("Hsl", <<Deg(350), Unit, Half, Unit>>)
    /\ arg[1].weight = One * SubSteps
    /\ arg[2].weight = SubSteps
    /\ res.out.ok
    /\ res.swapped.ok
    /\ FGt(res.out.val.v[1], Deg(350))
    /\ res.swapped.val = res.out.val

\* Weights of 1.0 and -1.0 were given: both orders fail with the weight error.
C30_WitnessError ==
    /\ op = "mix"
    /\ arg[1].weight = One * SubSteps
    /\ arg[2].weight = 0 - One * SubSteps
    /\ res.out = MkErr(ErrWeights)
    /\ res.swapped = MkErr(ErrWeights)

====
